---- MODULE Spec2Model ----
(***************************************************************************)
(* A model of doppler/rv.py: the cross-correlation function ccorrelate()   *)
(* as a pure operator over exact rational arithmetic, and the fit()        *)
(* pipeline as a state machine over its stages.                            *)
(***************************************************************************)
EXTENDS Integers, Sequences, FiniteSets, TLC

(***************************************************************************)
(* State.  cx, cy: the two series a caller of ccorrelate holds; ccall: the *)
(* call made on them; cres: what it returned or raised; cmem: the argument *)
(* arrays as the caller held them before the call and holds them after it. *)
(* For fit(): pc is                                                        *)
(* the stage about to run; spec the caller's spectrum object and entry its *)
(* arrays before the first call; obs the interpolated copy; fargs the      *)
(* arguments; env the model library and barycentric correction; orc the    *)
(* answers the collaborators have given; loc the local variables; out the  *)
(* returned record; exc the exception that left fit(); second: this is the *)
(* second call on the same object; first: the record the first returned.   *)
(* xc is the frame of one specxcorr() call: its arguments, its position,    *)
(* its local variables and the exception or record it ends with.  pr is    *)
(* the frame of one evaluation of the sampler's log prior and probability,  *)
(* pk the frame of the peak refiner inside specxcorr(), lg the lag axis     *)
(* fit() has specxcorr() hand to ccorrelate().                             *)
(* mu is the state of sys.stdout and sys.stderr around with mute() blocks. *)
(***************************************************************************)
VARIABLES cx, cy, ccall, cres, cmem, xc, pr, pk, lg, mu,
          pc, spec, obs, fargs, env, orc, loc, out, exc, second, first, entry

ccvars == <<cx, cy, ccall, cres, cmem>>
fitvars == <<pc, spec, obs, fargs, env, orc, loc, out, exc, second, first, entry>>
vars == <<cx, cy, ccall, cres, cmem, xc, pr, pk, lg, mu, pc, spec, obs, fargs, env, orc, loc, out, exc,
          second, first, entry>>

(***************************************************************************)
(* Bounds of the model.                                                    *)
(***************************************************************************)
\* largest number of pixels of a spectrum or series
MaxPix == 3
\* largest maxlag of a lag axis -maxlag..maxlag handed to ccorrelate
MaxLag == 2

(***************************************************************************)
(* Numbers.  A finite float is an exact rational [n, d] in lowest terms    *)
(* with d > 0.  d = 0 marks the two values that are not ordinary samples:  *)
(* NaN (not finite) and Huge, the value 1e30 used to flag a masked pixel,  *)
(* which is finite but not below the 1e20 ceiling.                         *)
(***************************************************************************)
Abs(a) == IF a < 0 THEN -a ELSE a

RECURSIVE GCD(_, _)
GCD(a, b) == IF b = 0 THEN a ELSE GCD(b, a % b)

Rat(n, d) ==
    LET g == GCD(Abs(n), Abs(d))
        s == IF d < 0 THEN -1 ELSE 1
    IN  [n |-> (s * n) \div g, d |-> (s * d) \div g]

R(i) == [n |-> i, d |-> 1]
NaN == [n |-> 0, d |-> 0]
Huge == [n |-> 1, d |-> 0]

IsFinite(v) == v # NaN
Below1e20(v) == v.d # 0

RAdd(a, b) ==
    LET g == GCD(a.d, b.d)
    IN  Rat(a.n * (b.d \div g) + b.n * (a.d \div g), a.d * (b.d \div g))
RNeg(a) == [n |-> -a.n, d |-> a.d]
RSub(a, b) == RAdd(a, RNeg(b))
RMul(a, b) == Rat(a.n * b.n, a.d * b.d)
RDiv(a, b) == Rat(a.n * b.d, a.d * b.n)
Sign(a) == IF a.n > 0 THEN 1 ELSE IF a.n < 0 THEN -1 ELSE 0

\* float arithmetic with NaN propagation (v - mean where either is NaN)
FSub(a, b) == IF a.d = 0 \/ b.d = 0 THEN NaN ELSE RSub(a, b)

\* a function over 1..n as a sequence value
Tup(f, n) == SubSeq(f, 1, n)

RECURSIVE SumSeq(_)
SumSeq(s) == IF s = <<>> THEN R(0) ELSE RAdd(Head(s), SumSeq(Tail(s)))

RECURSIVE SumInt(_)
SumInt(s) == IF s = <<>> THEN 0 ELSE Head(s) + SumInt(Tail(s))

RECURSIVE MaxInt(_)
MaxInt(s) == IF Len(s) = 1 THEN s[1]
             ELSE LET m == MaxInt(Tail(s)) IN IF s[1] > m THEN s[1] ELSE m

\* np.nanmean of one column: the mean of its non-NaN samples, NaN if none
NanMean(col) ==
    LET fin == SelectSeq(col, LAMBDA v : v.d # 0)
    IN  IF fin = <<>> THEN NaN ELSE RDiv(SumSeq(fin), R(Len(fin)))

(***************************************************************************)
(* Arrays.  A numpy array is [ndim, cols]: cols is the sequence of its     *)
(* orders (columns), each a sequence of npix samples; a 1-D array has one  *)
(* column.  None is the array of ndim 0.                                   *)
(***************************************************************************)
None == [ndim |-> 0, cols |-> <<>>]
Arr1(col) == [ndim |-> 1, cols |-> <<col>>]
Arr2(cols) == [ndim |-> 2, cols |-> cols]
NPixOf(a) == Len(a.cols[1])
NOrderOf(a) == IF a.ndim = 1 THEN 1 ELSE Len(a.cols)
ShapeOf(a) == IF a.ndim = 1 THEN <<NPixOf(a)>> ELSE <<NPixOf(a), Len(a.cols)>>

\* a[lo:hi] of a sequence of length n with Python's 0-based slice rules
PyIndex(i, n) == IF i < 0 THEN (IF i + n < 0 THEN 0 ELSE i + n)
                 ELSE IF i > n THEN n ELSE i
PySlice(s, lo, hi) ==
    LET a == PyIndex(lo, Len(s))
        b == PyIndex(hi, Len(s))
    IN  IF b <= a THEN <<>> ELSE SubSeq(s, a + 1, b)

\* numpy broadcasting of two 1-D operands
Broadcasts(a, b) == Len(a) = Len(b) \/ Len(a) = 1 \/ Len(b) = 1
BLen(a, b) == IF Len(a) = Len(b) THEN Len(a)
              ELSE IF Len(a) = 1 THEN Len(b) ELSE Len(a)
BAt(a, i) == IF Len(a) = 1 THEN a[1] ELSE a[i]

\* np.sum(a * b)
Dot(a, b) ==
    SumSeq(Tup([i \in 1..BLen(a, b) |-> RMul(BAt(a, i), BAt(b, i))], BLen(a, b)))
\* np.sum((a * b)**2)
DotSq(a, b) ==
    SumSeq(Tup([i \in 1..BLen(a, b) |->
                   LET p == RMul(BAt(a, i), BAt(b, i)) IN RMul(p, p)], BLen(a, b)))
\* np.sum(fa * fb) of two boolean arrays
CountBoth(fa, fb) ==
    SumInt(Tup([i \in 1..BLen(fa, fb) |->
                   IF BAt(fa, i) /\ BAt(fb, i) THEN 1 ELSE 0], BLen(fa, fb)))

(***************************************************************************)
(* Real results.  A CCF value c / sqrt(r) (r > 0 rational) is kept as its  *)
(* sign and its square, which identifies the real number exactly.          *)
(***************************************************************************)
Real(c, r) == [s |-> Sign(c), q |-> RDiv(RMul(c, c), r)]
\* sqrt(e) * f / sqrt(r), with e >= 0 and f >= 0
RealSqrt(e, f, r) ==
    LET sq == RMul(e, RMul(f, f))
    IN  [s |-> Sign(sq), q |-> RDiv(sq, r)]
One == [s |-> 1, q |-> R(1)]
Zero == [s |-> 0, q |-> R(0)]

(***************************************************************************)
(* ccorrelate(x, y, lag, yerr, covariance, nomean)                         *)
(***************************************************************************)
Raised(kind, msg) ==
    [exc |-> kind, msg |-> msg, ndim |-> 0, cross |-> <<>>, cerr |-> <<>>,
     haserr |-> FALSE]

\* ccCheck refusing every 2-D y, a single column included
ccCheckNo2DY(x, y, yerr) ==
    IF NPixOf(x) # NPixOf(y) THEN "ValueError:npix"
    ELSE IF y.ndim = 2 THEN "ValueError:x2d-y1d"
    ELSE IF yerr = None THEN "AttributeError:yerr.shape"
    ELSE IF ShapeOf(y) # ShapeOf(yerr) THEN "ValueError:yerr-shape"
    ELSE IF NPixOf(x) < 2 THEN "ValueError:npix<2"
    ELSE "ok"

\* the input checks, in the order the code makes them; "ok" when all pass
ccCheck(x, y, yerr) ==
    IF NPixOf(x) # NPixOf(y) THEN "ValueError:npix"
    ELSE IF x.ndim = 2 /\ y.ndim = 1 THEN "ValueError:x2d-y1d"
    ELSE IF x.ndim = 2 /\ y.ndim = 2 /\ NOrderOf(x) # NOrderOf(y)
         THEN "ValueError:norder"
    ELSE IF yerr = None THEN "AttributeError:yerr.shape"
    ELSE IF ShapeOf(y) # ShapeOf(yerr) THEN "ValueError:yerr-shape"
    ELSE IF NPixOf(x) < 2 THEN "ValueError:npix<2"
    ELSE "ok"

\* ccReshapeX without the loop that copies x into every order: xd stays
\* yd.copy()*0.0
ccReshapeXNoCopy(x, norder) ==
    IF norder > 1 /\ x.ndim = 1
    THEN Tup([i \in 1..norder |-> Tup([p \in 1..NPixOf(x) |-> R(0)], NPixOf(x))],
             norder)
    ELSE x.cols

\* xd after the reshape to [npix, norder]
ccReshapeX(x, norder) ==
    IF norder > 1 /\ x.ndim = 1 THEN Tup([i \in 1..norder |-> x.cols[1]], norder)
    ELSE x.cols

\* col -= np.nanmean(col), unless nomean
ccRemoveMean(col, nomean) ==
    IF nomean THEN col
    ELSE LET m == NanMean(col)
         IN  Tup([p \in 1..Len(col) |-> FSub(col[p], m)], Len(col))

\* the good-sample mask of y: finite, and error below the ceiling when given
ccMaskY(ycol, errcol, haserr) ==
    Tup([p \in 1..Len(ycol) |->
            IsFinite(ycol[p]) /\ (haserr => Below1e20(errcol[p]))], Len(ycol))

\* the good-sample mask of x: finite
ccMaskX(xcol) ==
    Tup([p \in 1..Len(xcol) |-> IsFinite(xcol[p])], Len(xcol))

ccZero(col, good) ==
    Tup([p \in 1..Len(col) |-> IF good[p] THEN col[p] ELSE R(0)], Len(col))

\* ccLagPair without the reversal of the variables for negative lags
ccLagPairNoReversal(a, b, nx, lag) ==
    IF lag > 0 THEN <<PySlice(a, 0, nx - lag), PySlice(b, lag, Len(b))>>
    ELSE <<PySlice(a, 0, nx + lag), PySlice(b, -lag, Len(b))>>

\* the two slices multiplied at one lag: <<left operand, right operand>>
\* taken from (a, b) = (xd, yd) for a positive lag and (yd, xd) otherwise
ccLagPair(a, b, nx, lag) ==
    IF lag > 0 THEN <<PySlice(a, 0, nx - lag), PySlice(b, lag, Len(b))>>
    ELSE <<PySlice(b, 0, nx + lag), PySlice(a, -lag, Len(a))>>

\* ccRms with the normalizer left at 1.0 for every length
ccRmsAlwaysOne(npix, sumsq) == R(1)

\* the sum of squares of one order, or 1.0
ccRms(npix, sumsq) ==
    IF npix > 2 THEN (IF sumsq = R(0) THEN R(1) ELSE sumsq) ELSE R(1)

\* nelements, computed after norder has been reset to 1 when both are 2-D
ccNelements(npix, both2d, norder) ==
    IF both2d THEN npix * 1 ELSE npix

\* one normalized CCF value
ccNormCross(c, num, maxnum, covariance, nelements, rx, ry) ==
    LET c1 == RMul(c, R(maxnum))
        c2 == IF num > 0 THEN RDiv(c1, R(num)) ELSE c1
    IN  IF covariance THEN Real(RDiv(c2, R(nelements)), R(1))
        ELSE Real(c2, RMul(rx, ry))

\* one normalized CCF error value
ccNormError(e, num, maxnum, covariance, nelements, rx, ry) ==
    LET f == IF num > 0 THEN Rat(maxnum, num) ELSE R(maxnum)
    IN  IF covariance THEN RealSqrt(e, f, R(nelements * nelements))
        ELSE RealSqrt(e, f, RMul(rx, ry))

\* the loop over the lags for one order: raw cross, counts and squared
\* errors per lag, and the two sums of squares
ccLagSums(xd, yd, yderr, fx, fy, haserr, lag) ==
    [cross |-> Tup([k \in 1..Len(lag) |->
                    Dot(ccLagPair(xd, yd, Len(xd), lag[k])[1],
                        ccLagPair(xd, yd, Len(xd), lag[k])[2])], Len(lag)),
     num |-> Tup([k \in 1..Len(lag) |->
                    CountBoth(ccLagPair(fx, fy, Len(xd), lag[k])[1],
                              ccLagPair(fx, fy, Len(xd), lag[k])[2])], Len(lag)),
     err |-> IF haserr
             THEN Tup([k \in 1..Len(lag) |->
                    DotSq(ccLagPair(xd, yderr, Len(xd), lag[k])[1],
                          ccLagPair(xd, yderr, Len(xd), lag[k])[2])], Len(lag))
             ELSE Tup([k \in 1..Len(lag) |-> R(0)], Len(lag)),
     rx |-> ccRms(Len(xd), SumSeq(Tup([p \in 1..Len(xd) |-> RMul(xd[p], xd[p])],
                                      Len(xd)))),
     ry |-> ccRms(Len(xd), SumSeq(Tup([p \in 1..Len(xd) |-> RMul(yd[p], yd[p])],
                                      Len(xd))))]

\* bad samples of the mean-removed series set to zero, then the lag loop
ccMasked(xd0, yd0, ec, fx, fy, haserr, lag) ==
    ccLagSums(ccZero(xd0, fx), ccZero(yd0, fy),
              IF haserr THEN ccZero(ec, fy) ELSE <<>>, fx, fy, haserr, lag)

\* mean removal and the good-sample masks of the mean-removed series
ccMeanRemoved(xd0, yd0, ec, haserr, lag) ==
    ccMasked(xd0, yd0, ec, ccMaskX(xd0), ccMaskY(yd0, ec, haserr), haserr, lag)

\* the sums of one order
ccOrderSums(xcol, ycol, ec, haserr, lag, nomean) ==
    ccMeanRemoved(ccRemoveMean(xcol, nomean), ccRemoveMean(ycol, nomean), ec,
                  haserr, lag)

\* both inputs 2-D: the orders' sums added up into one order
ccCombine(sums, nlag) ==
    LET n == Len(sums)
    IN  <<[cross |-> Tup([k \in 1..nlag |->
                SumSeq(Tup([i \in 1..n |-> sums[i].cross[k]], n))], nlag),
           num |-> Tup([k \in 1..nlag |->
                SumInt(Tup([i \in 1..n |-> sums[i].num[k]], n))], nlag),
           err |-> Tup([k \in 1..nlag |->
                SumSeq(Tup([i \in 1..n |-> sums[i].err[k]], n))], nlag),
           rx |-> SumSeq(Tup([i \in 1..n |-> sums[i].rx], n)),
           ry |-> SumSeq(Tup([i \in 1..n |-> sums[i].ry], n))]>>

\* every lag's pair of slices can be multiplied
ccLagsFit(nx, lag) ==
    \A k \in 1..Len(lag) :
        LET idx == Tup([p \in 1..nx |-> p], nx)
            pair == ccLagPair(idx, idx, nx, lag[k])
        IN  Broadcasts(pair[1], pair[2])

\* the sums of every order, x copied across the orders of y when it is 1-D
ccAllSums(xcols, y, lag, yerr, nomean, norder) ==
    Tup([i \in 1..norder |->
            ccOrderSums(xcols[i], y.cols[i],
                        IF yerr # None THEN yerr.cols[i] ELSE <<>>,
                        yerr # None, lag, nomean)], norder)

\* the normalization of the summed cross products and errors
ccNormalize(sums, nlag, nelements, covariance, haserr) ==
    [exc |-> "none", msg |-> "", ndim |-> IF Len(sums) = 1 THEN 1 ELSE 2,
     cross |-> Tup([i \in 1..Len(sums) |-> Tup([k \in 1..nlag |->
                 ccNormCross(sums[i].cross[k], sums[i].num[k],
                             MaxInt(sums[i].num), covariance, nelements,
                             sums[i].rx, sums[i].ry)], nlag)], Len(sums)),
     cerr |-> IF haserr
              THEN Tup([i \in 1..Len(sums) |-> Tup([k \in 1..nlag |->
                 ccNormError(sums[i].err[k], sums[i].num[k],
                             MaxInt(sums[i].num), covariance, nelements,
                             sums[i].rx, sums[i].ry)], nlag)], Len(sums))
              ELSE <<>>,
     haserr |-> haserr]

\* the orders combined when both inputs are 2-D, then the normalization
ccOrders(sums0, nx, both2d, norder0, nlag, covariance, haserr) ==
    ccNormalize(IF both2d THEN ccCombine(sums0, nlag) ELSE sums0, nlag,
                ccNelements(nx, both2d, norder0), covariance, haserr)

ccNOrder(x, y) ==
    IF NOrderOf(x) > NOrderOf(y) THEN NOrderOf(x) ELSE NOrderOf(y)

ccCompute(x, y, lag, yerr, covariance, nomean) ==
    ccOrders(ccAllSums(ccReshapeX(x, ccNOrder(x, y)), y, lag, yerr, nomean,
                       ccNOrder(x, y)),
             NPixOf(x), NOrderOf(x) > 1 /\ NOrderOf(y) > 1, ccNOrder(x, y),
             Len(lag), covariance, yerr # None)

\* xd = x with no copy taken: the working array is the caller's buffer
ccAlias(a) == [own |-> FALSE, cols |-> a.cols]

\* a.copy(): a working array with a buffer of its own
ccCopy(a) == [own |-> TRUE, cols |-> a.cols]

\* the values xd, yd and yderr hold once the means are removed and the bad
\* samples are set to zero
ccFinalX(xcols, nomean) ==
    Tup([i \in 1..Len(xcols) |->
            ccZero(ccRemoveMean(xcols[i], nomean),
                   ccMaskX(ccRemoveMean(xcols[i], nomean)))], Len(xcols))
ccFinalY(y, yerr, nomean) ==
    Tup([i \in 1..Len(y.cols) |->
            ccZero(ccRemoveMean(y.cols[i], nomean),
                   ccMaskY(ccRemoveMean(y.cols[i], nomean), yerr.cols[i], TRUE))],
        Len(y.cols))
ccFinalErr(y, yerr, nomean) ==
    Tup([i \in 1..Len(y.cols) |->
            ccZero(yerr.cols[i],
                   ccMaskY(ccRemoveMean(y.cols[i], nomean), yerr.cols[i], TRUE))],
        Len(y.cols))

\* what the caller's array a holds after the in-place writes to the working
\* array buf have left final in it
ccAfter(a, buf, final) ==
    IF buf.own THEN a ELSE [ndim |-> a.ndim, cols |-> final]

\* the caller's x, y, yerr and lag after the call: the checks raise before
\* anything is written; xd is a new array when x is copied across the orders
\* of y; lag is only read
ccArgsAfter(x, y, lag, yerr, nomean) ==
    IF ccCheck(x, y, yerr) # "ok"
    THEN [x |-> x, y |-> y, yerr |-> yerr, lag |-> lag]
    ELSE [x |-> IF ccNOrder(x, y) > 1 /\ x.ndim = 1 THEN x
                ELSE ccAfter(x, ccCopy(x), ccFinalX(x.cols, nomean)),
          y |-> ccAfter(y, ccCopy(y), ccFinalY(y, yerr, nomean)),
          yerr |-> ccAfter(yerr, ccCopy(yerr), ccFinalErr(y, yerr, nomean)),
          lag |-> lag]

ccorrelate(x, y, lag, yerr, covariance, nomean) ==
    LET chk == ccCheck(x, y, yerr)
    IN  IF chk # "ok"
        THEN Raised(IF chk = "AttributeError:yerr.shape"
                    THEN "AttributeError" ELSE "ValueError", chk)
        ELSE IF ~ccLagsFit(NPixOf(x), lag)
        THEN Raised("ValueError", "ValueError:broadcast")
        ELSE ccCompute(x, y, lag, yerr, covariance, nomean)

(***************************************************************************)
(* The callers' data and the calls made on it.                             *)
(***************************************************************************)
\* largest number of orders of a 2-D input
MaxOrd == 3

FluxVals == {R(0), R(1)}
ErrKinds == {"ones", "flag"}
\* the order counts tried: 1-D, one order, MaxOrd orders
OrdChoices == {0, 1, MaxOrd}
Scales == {-1, 2}

\* the lag axis -ml..ml
Lags(ml) == Tup([i \in 1..(2 * ml + 1) |-> i - ml - 1], 2 * ml + 1)
LagIndex(ml, L) == L + ml + 1

\* an error column: all 0, all 1, or 1 with the first pixel flagged at 1e30
ErrCol(kind, n) ==
    Tup([p \in 1..n |-> IF kind = "zeros" THEN R(0)
                        ELSE IF kind = "flag" /\ p = 1 THEN Huge ELSE R(1)], n)

\* a column as a 1-D array (k = 0) or as k identical orders
Orders(col, k) == IF k = 0 THEN Arr1(col) ELSE Arr2(Tup([i \in 1..k |-> col], k))

ScaleCol(col, s) ==
    Tup([p \in 1..Len(col) |->
            IF col[p].d = 0 THEN col[p] ELSE RMul(R(s), col[p])], Len(col))

NoCall ==
    [kind |-> "none", ml |-> 0, cov |-> FALSE, nomean |-> FALSE, err |-> "",
     kx |-> 0, ky |-> 0, s |-> 1]
NoRes == Raised("", "")
NoArgs == [x |-> None, y |-> None, yerr |-> None, lag |-> <<>>]
NoMem == [before |-> NoArgs, after |-> NoArgs]

\* the caller's argument arrays before and after ccorrelate(x, y, lag, yerr,
\* nomean=nomean)
CallMem(x, y, lag, yerr, nomean) ==
    [before |-> [x |-> x, y |-> y, yerr |-> yerr, lag |-> lag],
     after |-> ccArgsAfter(x, y, lag, yerr, nomean)]

CCData ==
    /\ \E n \in 1..MaxPix :
          /\ cx \in [1..n -> FluxVals]
          /\ \E base \in [1..n -> FluxVals], bad \in {0, n} :
                cy = IF bad = 0 THEN base ELSE [base EXCEPT ![bad] = NaN]
    /\ ccall = NoCall
    /\ cres = NoRes
    /\ cmem = NoMem

\* ccorrelate(x, y, lag, yerr, covariance=cov, nomean=nomean) on 1-D arrays
Call1D(ml, cov, nomean, err) ==
    /\ ccall.kind = "none"
    /\ ccall' = [NoCall EXCEPT !.kind = "1d", !.ml = ml, !.cov = cov,
                               !.nomean = nomean, !.err = err]
    /\ cres' = ccorrelate(Arr1(cx), Arr1(cy), Lags(ml),
                          Arr1(ErrCol(err, Len(cy))), cov, nomean)
    /\ cmem' = CallMem(Arr1(cx), Arr1(cy), Lags(ml),
                       Arr1(ErrCol(err, Len(cy))), nomean)
    /\ UNCHANGED <<cx, cy, xc, pr, pk, lg, mu>> /\ UNCHANGED fitvars

\* ccorrelate(x, y, lag): no error array
CallNoErr(ml, cov) ==
    /\ ccall.kind = "none"
    /\ ccall' = [NoCall EXCEPT !.kind = "noerr", !.ml = ml, !.cov = cov]
    /\ cres' = ccorrelate(Arr1(cx), Arr1(cy), Lags(ml), None, cov, FALSE)
    /\ cmem' = CallMem(Arr1(cx), Arr1(cy), Lags(ml),
                       None, FALSE)
    /\ UNCHANGED <<cx, cy, xc, pr, pk, lg, mu>> /\ UNCHANGED fitvars

\* ccorrelate(x, y[:-1], lag, yerr[:-1]): one pixel fewer in y
CallShort(err) ==
    /\ ccall.kind = "none"
    /\ Len(cy) > 1
    /\ ccall' = [NoCall EXCEPT !.kind = "short", !.ml = 1, !.err = err]
    /\ cres' = LET ys == SubSeq(cy, 1, Len(cy) - 1)
               IN  ccorrelate(Arr1(cx), Arr1(ys), Lags(1),
                              IF err = "" THEN None
                              ELSE Arr1(ErrCol(err, Len(ys))), FALSE, FALSE)
    /\ cmem' = LET ys == SubSeq(cy, 1, Len(cy) - 1)
               IN  CallMem(Arr1(cx), Arr1(ys), Lags(1),
                       IF err = "" THEN None ELSE Arr1(ErrCol(err, Len(ys))), FALSE)
    /\ UNCHANGED <<cx, cy, xc, pr, pk, lg, mu>> /\ UNCHANGED fitvars

\* x given as kx orders and y (with its errors) as ky orders; 0 means 1-D
CallOrders(kx, ky, cov) ==
    /\ ccall.kind = "none"
    /\ ccall' = [NoCall EXCEPT !.kind = "orders", !.ml = MaxLag, !.cov = cov,
                               !.err = "ones", !.kx = kx, !.ky = ky]
    /\ cres' = ccorrelate(Orders(cx, kx), Orders(cy, ky), Lags(MaxLag),
                          Orders(ErrCol("ones", Len(cy)), ky), cov, FALSE)
    /\ cmem' = CallMem(Orders(cx, kx), Orders(cy, ky), Lags(MaxLag),
                       Orders(ErrCol("ones", Len(cy)), ky), FALSE)
    /\ UNCHANGED <<cx, cy, xc, pr, pk, lg, mu>> /\ UNCHANGED fitvars

\* y given as ky orders with a 1-D error array
CallErrShape(ky) ==
    /\ ccall.kind = "none"
    /\ ky > 0
    /\ ccall' = [NoCall EXCEPT !.kind = "errshape", !.ml = 1, !.err = "ones",
                               !.ky = ky]
    /\ cres' = ccorrelate(Arr1(cx), Orders(cy, ky), Lags(1),
                          Arr1(ErrCol("ones", Len(cy))), FALSE, FALSE)
    /\ cmem' = CallMem(Arr1(cx), Orders(cy, ky), Lags(1),
                       Arr1(ErrCol("ones", Len(cy))), FALSE)
    /\ UNCHANGED <<cx, cy, xc, pr, pk, lg, mu>> /\ UNCHANGED fitvars

\* ccorrelate(y, x, lag, zeros): the two series exchanged
CallSwapped(ml) ==
    /\ ccall.kind = "none"
    /\ ccall' = [NoCall EXCEPT !.kind = "swapped", !.ml = ml, !.err = "zeros"]
    /\ cres' = ccorrelate(Arr1(cy), Arr1(cx), Lags(ml),
                          Arr1(ErrCol("zeros", Len(cx))), FALSE, FALSE)
    /\ cmem' = CallMem(Arr1(cy), Arr1(cx), Lags(ml),
                       Arr1(ErrCol("zeros", Len(cx))), FALSE)
    /\ UNCHANGED <<cx, cy, xc, pr, pk, lg, mu>> /\ UNCHANGED fitvars

\* ccorrelate(s*x, s*x, lag, zeros): a series against itself
CallSelf(s, ml) ==
    /\ ccall.kind = "none"
    /\ ccall' = [NoCall EXCEPT !.kind = "self", !.ml = ml, !.err = "zeros",
                               !.s = s]
    /\ cres' = ccorrelate(Arr1(ScaleCol(cx, s)), Arr1(ScaleCol(cx, s)), Lags(ml),
                          Arr1(ErrCol("zeros", Len(cx))), FALSE, FALSE)
    /\ cmem' = CallMem(Arr1(ScaleCol(cx, s)), Arr1(ScaleCol(cx, s)), Lags(ml),
                       Arr1(ErrCol("zeros", Len(cx))), FALSE)
    /\ UNCHANGED <<cx, cy, xc, pr, pk, lg, mu>> /\ UNCHANGED fitvars

\* one call is made on the data of a behaviour
CCNext ==
    \/ \E ml \in 0..MaxLag, cov \in BOOLEAN, nomean \in BOOLEAN, err \in ErrKinds :
          Call1D(ml, cov, nomean, err)
    \/ \E ml \in 0..MaxLag, cov \in BOOLEAN : CallNoErr(ml, cov)
    \/ \E err \in ErrKinds \cup {""} : CallShort(err)
    \/ \E kx \in OrdChoices, ky \in OrdChoices, cov \in BOOLEAN :
          CallOrders(kx, ky, cov)
    \/ \E ky \in OrdChoices : CallErrShape(ky)
    \/ \E ml \in 0..MaxLag : CallSwapped(ml)
    \/ \E s \in Scales \cup {1}, ml \in 0..MaxLag : CallSelf(s, ml)

(***************************************************************************)
(* specxcorr(wave, tempspec, obsspec, obserr, maxlag)                      *)
(*                                                                         *)
(* One template against one observed spectrum, both 1-D; prior is None and *)
(* errccf is False, as in the two calls fit() makes.                       *)
(***************************************************************************)
\* float comparisons: False when a side is NaN; the 1e30 flag is above every
\* other value
FLt(a, b) ==
    IF a = NaN \/ b = NaN \/ a = Huge THEN FALSE
    ELSE IF b = Huge THEN TRUE
    ELSE a.n * b.d < b.n * a.d
FLe(a, b) ==
    IF a = NaN \/ b = NaN THEN FALSE
    ELSE IF b = Huge THEN TRUE
    ELSE IF a = Huge THEN FALSE
    ELSE a.n * b.d <= b.n * a.d

\* the k-th smallest sample of s
Kth(s, k) ==
    CHOOSE v \in {s[i] : i \in 1..Len(s)} :
        /\ Cardinality({i \in 1..Len(s) : FLt(s[i], v)}) < k
        /\ Cardinality({i \in 1..Len(s) : FLe(s[i], v)}) >= k

\* the mean of the two middle samples; with the 1e30 flag it stays above every
\* ceiling
FMid(a, b) == IF a = Huge \/ b = Huge THEN Huge ELSE RDiv(RAdd(a, b), R(2))

\* np.median of samples none of which is NaN
Median(s) ==
    IF Len(s) % 2 = 1 THEN Kth(s, (Len(s) + 1) \div 2)
    ELSE FMid(Kth(s, Len(s) \div 2), Kth(s, Len(s) \div 2 + 1))

\* the window of the running median of the errors
MedFiltSize == 51

\* the sample scipy's 'reflect' boundary gives at the 0-based position j of
\* an array of n samples: d c b a | a b c d | d c b a
Reflect(j, n) ==
    LET r == j % (2 * n) IN IF r < n THEN r ELSE 2 * n - 1 - r

\* median_filter(col, size)
MedianFilter(col, size) ==
    LET n == Len(col)
    IN  Tup([p \in 1..n |->
               Median(Tup([k \in 1..size |->
                     col[Reflect(p - 1 - (size \div 2) + (k - 1), n) + 1]],
                     size))], n)

\* nlag = 2*round(|maxlag|)+1, made odd; minlag = -ceil(nlag/2);
\* lag = arange(nlag) + minlag + 1
xcNLag(maxlag) ==
    LET nlag == 2 * Abs(maxlag) + 1
    IN  IF nlag % 2 = 0 THEN nlag + 1 ELSE nlag
xcLag(maxlag) ==
    LET nlag == xcNLag(maxlag)
        minlag == -((nlag + 1) \div 2)
    IN  Tup([i \in 1..nlag |-> (i - 1) + minlag + 1], nlag)

\* the flux below which a pixel is set to NaN
FluxFloor == Rat(1, 100)
\* the error at and above which a pixel does not count as good
ErrCeiling == R(100000)

\* spec[spec < 0.01] = nan, template[template < 0.01] = nan
xcFix(col) ==
    Tup([p \in 1..Len(col) |-> IF FLt(col[p], FluxFloor) THEN NaN ELSE col[p]],
        Len(col))

\* np.sum(np.isfinite(col))
xcNFinite(col) == Cardinality({p \in 1..Len(col) : IsFinite(col[p])})

\* bderr = (obserr1 > 1) | (obserr1 <= 0)
xcBadErr(e) == FLt(R(1), e) \/ FLe(e, R(0))

\* obserr1: the bad errors replaced by the median of the good ones when there
\* are at least two good ones, then the running median
xcReplaceErr(err) ==
    LET good == SelectSeq(err, LAMBDA e : ~xcBadErr(e))
    IN  IF Len(good) < Len(err) /\ Len(good) > 1
        THEN Tup([p \in 1..Len(err) |->
                    IF xcBadErr(err[p]) THEN Median(good) ELSE err[p]], Len(err))
        ELSE err
xcObsErr1(err) == MedianFilter(xcReplaceErr(err), MedFiltSize)

\* gdmask = isfinite(spec) & isfinite(template) & (spec>0) & (err>0) & (err<1e5)
xcGdMask(sp, temp, err) ==
    Tup([p \in 1..Len(sp) |->
            /\ IsFinite(sp[p]) /\ IsFinite(temp[p])
            /\ FLt(R(0), sp[p]) /\ FLt(R(0), err[p]) /\ FLt(err[p], ErrCeiling)],
        Len(sp))
xcNGdPix(sp, temp, err) ==
    Cardinality({p \in 1..Len(sp) : xcGdMask(sp, temp, err)[p]})

XcNoExc == [kind |-> "", msg |-> ""]
XcExc(kind, msg) == [kind |-> kind, msg |-> msg]
\* raise Exception('Bad spectrum')
BadSpectrum == XcExc("Exception", "Bad spectrum")

\* the branch taken when a spectrum has no finite pixel: np.float(lag) fails
\* on an array of more than one lag, and with one lag the name nofit is not
\* defined
xcNoGoodPixels(lag) ==
    IF Len(lag) > 1
    THEN XcExc("TypeError", "only size-1 arrays can be converted")
    ELSE XcExc("NameError", "name 'nofit' is not defined")

\* lines 367-426: the copies, the masking, the cross-correlation or the
\* branch without good pixels, and the good-pixel count; the record holds the
\* exception raised there, or the CCF
xcCorrelate(temp, sp, err, lag) ==
    IF xcNFinite(xcFix(sp)) > 0 /\ xcNFinite(xcFix(temp)) > 0
    THEN LET r == ccorrelate(Arr1(xcFix(temp)), Arr1(xcFix(sp)), lag,
                             Arr1(xcObsErr1(err)), FALSE, FALSE)
         IN  IF r.exc # "none"
             THEN [exc |-> XcExc(r.exc, r.msg), ccf |-> r,
                   obserr1 |-> xcObsErr1(err)]
             ELSE IF xcNGdPix(xcFix(sp), xcFix(temp), err) = 0
             THEN [exc |-> BadSpectrum, ccf |-> r, obserr1 |-> xcObsErr1(err)]
             ELSE [exc |-> XcNoExc, ccf |-> r, obserr1 |-> xcObsErr1(err)]
    ELSE [exc |-> xcNoGoodPixels(lag), ccf |-> NoRes, obserr1 |-> <<>>]

\* the frame before a call
NoXc ==
    [pc |-> "idle", temp |-> <<>>, obs |-> <<>>, err |-> <<>>, maxlag |-> 0,
     obserr1 |-> <<>>, exc |-> XcNoExc, ccf |-> NoRes]
XCIdle == xc = NoXc

\* the error arrays of a call: all 1, the first pixel masked at 1e30, every
\* pixel masked, all 2
XcErrKinds == {"ones", "flag", "masked", "twos"}
XcErrCol(kind, n) ==
    Tup([p \in 1..n |->
            IF kind = "masked" \/ (kind = "flag" /\ p = 1) THEN Huge
            ELSE IF kind = "twos" THEN R(2) ELSE R(1)], n)

\* a call of specxcorr on arrays of 2..MaxPix pixels
XCData ==
    \E n \in 2..MaxPix, ml \in 0..MaxLag, ek \in XcErrKinds :
       \E temp \in [1..n -> {R(0), R(1)}],
          sp \in [1..n -> {R(0), R(1), R(2)}] \cup {Tup([p \in 1..n |-> NaN], n)} :
          xc = [NoXc EXCEPT !.pc = "start", !.temp = temp, !.obs = sp,
                            !.err = XcErrCol(ek, n), !.maxlag = ml]

\* specxcorr up to the good-pixel count of line 424
XcCorrelate ==
    /\ xc.pc = "start"
    /\ LET r == xcCorrelate(xc.temp, xc.obs, xc.err, xcLag(xc.maxlag))
       IN  xc' = [xc EXCEPT !.pc = IF r.exc = XcNoExc THEN "peak" ELSE "raised",
                            !.exc = r.exc, !.ccf = r.ccf,
                            !.obserr1 = r.obserr1]
    /\ UNCHANGED ccvars /\ UNCHANGED fitvars /\ UNCHANGED <<pr, pk, lg, mu>>

XCNext ==
    \/ XcCorrelate

(***************************************************************************)
(* The peak refiner of specxcorr(): the Gaussian-plus-constant fits of     *)
(* lines 427-496 on the CCF left after the background is removed.          *)
(*                                                                         *)
(* A parameter vector is <<height, center, sigma, constant>> of exact      *)
(* rationals; a bound may be minus or plus infinity.  The CCF values are   *)
(* finite.  curve_fit answers with a point inside the bounds.              *)
(***************************************************************************)
\* largest maxlag of a CCF handed to the refiner
MaxPeakLag == 5

NInf == [n |-> -1, d |-> 0]
PInf == [n |-> 1, d |-> 0]

\* comparisons of rationals and infinities
XLt(a, b) == IF a.d = 0 /\ b.d = 0 THEN a.n < b.n ELSE a.n * b.d < b.n * a.d
XLe(a, b) == a = b \/ XLt(a, b)

\* dln.lt(a, b), dln.gt(a, b) and dln.limit(x, lo, hi) = lt(gt(x, lo), hi)
RLesser(a, b) == IF XLt(a, b) THEN a ELSE b
RGreater(a, b) == IF XLt(b, a) THEN a ELSE b
RLimit(x, lo, hi) == RLesser(RGreater(x, lo), hi)

\* np.min, np.max and np.argmax (the first index of the largest value)
RECURSIVE RMin(_)
RMin(s) == IF Len(s) = 1 THEN s[1] ELSE RLesser(s[1], RMin(Tail(s)))
RECURSIVE RMax(_)
RMax(s) == IF Len(s) = 1 THEN s[1] ELSE RGreater(s[1], RMax(Tail(s)))
ArgMax(s) ==
    CHOOSE i \in 1..Len(s) :
        /\ \A j \in 1..Len(s) : XLe(s[j], s[i])
        /\ \A j \in 1..(i - 1) : XLt(s[j], s[i])

\* least_squares refuses bounds that are not lower < upper, then a start
\* outside the bounds
SolverStart(x0, lb, ub) ==
    IF \E i \in 1..4 : ~XLt(lb[i], ub[i])
    THEN XcExc("ValueError", "Each lower bound must be strictly less than each upper bound.")
    ELSE IF \E i \in 1..4 : ~(XLe(lb[i], x0[i]) /\ XLe(x0[i], ub[i]))
    THEN XcExc("ValueError", "x0 is infeasible.")
    ELSE XcNoExc

\* the answers of the solver tried: the start, and the finite lower and
\* upper bounds
SolverPicks(x0, lb, ub) ==
    {x0,
     Tup([i \in 1..4 |-> IF lb[i].d # 0 THEN lb[i] ELSE x0[i]], 4),
     Tup([i \in 1..4 |-> IF ub[i].d # 0 THEN ub[i] ELSE x0[i]], 4)}

\* best_xshift = lag[np.argmax(ccf_diff)]
pkBestShift(lag, ccfdiff) == R(lag[ArgMax(ccfdiff)])

\* estimates0, lbounds0, ubounds0
pkStart0(lag, ccfdiff, ind0) ==
    [x0 |-> <<ccfdiff[ind0], R(lag[ind0]), R(4), R(0)>>,
     lb |-> <<Rat(1, 1000), R(lag[1]), Rat(1, 10), NInf>>,
     ub |-> <<PInf, R(lag[Len(lag)]), R(lag[Len(lag)]), PInf>>]

\* the bounds shared by fits 1 to 3: half to one and a half of the height,
\* the given center range, 0.3 to 1.5 of the sigma, and the constant between
\* lt(min(ccf_diff), lt(0, c-0.1)) and gt(max(ccf_diff)*0.5, c+0.1)
pkConstLo(ccfdiff, c) ==
    RLesser(RMin(ccfdiff), RLesser(R(0), RSub(c, Rat(1, 10))))
pkConstHi(ccfdiff, c) ==
    RGreater(RMul(RMax(ccfdiff), Rat(1, 2)), RAdd(c, Rat(1, 10)))
pkBounds(e, ctrlo, ctrhi, ccfdiff) ==
    [x0 |-> e,
     lb |-> <<RMul(Rat(1, 2), e[1]), ctrlo, RMul(Rat(3, 10), e[3]),
              pkConstLo(ccfdiff, e[4])>>,
     ub |-> <<RMul(Rat(3, 2), e[1]), ctrhi, RMul(Rat(3, 2), e[3]),
              pkConstHi(ccfdiff, e[4])>>]

\* estimates1 = pars0 with the center at best_xshift, center within 4 lags
pkStart1(lag, ccfdiff, pars0) ==
    pkBounds([pars0 EXCEPT ![2] = pkBestShift(lag, ccfdiff)],
             RSub(pkBestShift(lag, ccfdiff), R(4)),
             RAdd(pkBestShift(lag, ccfdiff), R(4)), ccfdiff)

\* estimates2 and estimates3: the center limited to the lag range and the
\* constant given; the center bounds limited around it
pkEstimate(lag, pars, const) ==
    [pars EXCEPT ![2] = RLimit(pars[2], R(lag[1]), R(lag[Len(lag)])),
                 ![4] = const]
pkStart23(lag, ccfdiff, e) ==
    pkBounds(e,
             RLimit(RSub(pkBestShift(lag, ccfdiff), RGreater(e[3], R(1))),
                    R(lag[1]), RSub(e[2], R(1))),
             RLimit(RAdd(pkBestShift(lag, ccfdiff), RGreater(e[3], R(1))),
                    RAdd(e[2], R(1)), R(lag[Len(lag)])),
             ccfdiff)

\* the refit when perror3 is large: from pars3, in dlbounds3 and dubounds3
pkStartRefit(ccfdiff, e3, pars3) ==
    [x0 |-> pars3,
     lb |-> <<RMul(Rat(1, 2), e3[1]), RAdd(R(-10), pars3[2]), Rat(1, 100),
              pkConstLo(ccfdiff, e3[4])>>,
     ub |-> <<RMul(Rat(3, 2), e3[1]), RAdd(R(10), pars3[2]),
              RMul(R(2), pars3[3]), pkConstHi(ccfdiff, e3[4])>>]

\* the frame of the refiner before its first fit
NoPars == <<R(0), R(0), R(0), R(0)>>
NoPeak ==
    [pc |-> "idle", maxlag |-> 0, ccfdiff |-> <<>>, ind0 |-> 0, calls |-> <<>>,
     pars0 |-> NoPars, pars1 |-> NoPars, pars2 |-> NoPars, pars3 |-> NoPars,
     dpars3 |-> NoPars, fit3error |-> <<0, 0, 0, 0>>, perror3 |-> <<0, 0, 0, 0>>,
     refit |-> FALSE, med |-> R(0), exc |-> XcNoExc,
     out |-> [set |-> FALSE, xshift |-> R(0), xshifterr |-> 0, ccpeak |-> R(0),
              sigma |-> R(0), ccp_pars |-> NoPars, ccp_perror |-> <<0, 0, 0, 0>>]]
PKIdle == pk = NoPeak

\* the CCFs handed to the refiner: all zero, all below zero, or one peak of
\* height 1 or 1/2000 at the first, the middle or the last lag
PeakShapes(nlag) ==
    {Tup([k \in 1..nlag |-> R(0)], nlag), Tup([k \in 1..nlag |-> R(-1)], nlag)}
    \cup {Tup([k \in 1..nlag |-> IF k = at THEN h ELSE R(0)], nlag) :
             at \in {1, (nlag + 1) \div 2, nlag}, h \in {R(1), Rat(1, 2000)}}

PeakData ==
    \E ml \in 0..MaxPeakLag :
       \E ccfdiff \in PeakShapes(xcNLag(ml)),
          ind0 \in {1, (xcNLag(ml) + 1) \div 2, xcNLag(ml)} :
          pk = [NoPeak EXCEPT !.pc = "fit0", !.maxlag = ml,
                              !.ccfdiff = ccfdiff, !.ind0 = ind0]

\* one call of dln.gaussfit from the start st: it raises, or answers with
\* pars; field names the parameter vector kept
pkSolve(st, field, next) ==
    IF SolverStart(st.x0, st.lb, st.ub) # XcNoExc
    THEN pk' = [pk EXCEPT !.pc = "raised", !.calls = Append(@, st),
                          !.exc = SolverStart(st.x0, st.lb, st.ub)]
    ELSE \E pars \in SolverPicks(st.x0, st.lb, st.ub) :
            pk' = [pk EXCEPT !.pc = next, !.calls = Append(@, st),
                             ![field] = pars]

\* fit 0: the whole lag range, no background subtraction
PeakFit0 ==
    /\ pk.pc = "fit0"
    /\ pkSolve(pkStart0(xcLag(pk.maxlag), pk.ccfdiff, pk.ind0), "pars0", "fit1")
    /\ UNCHANGED <<ccvars, fitvars, xc, pr, lg, mu>>

\* fit 1: the width, with height, center and constant constrained
PeakFit1 ==
    /\ pk.pc = "fit1"
    /\ pkSolve(pkStart1(xcLag(pk.maxlag), pk.ccfdiff, pk.pars0), "pars1", "fit2")
    /\ UNCHANGED <<ccvars, fitvars, xc, pr, lg, mu>>

\* fit 2: the constant re-estimated as the median residual of fit 1 plus
\* pars1[3]; estimates2 is pars1 itself, so pars1[3] becomes that estimate
PeakFit2 ==
    /\ pk.pc = "fit2"
    /\ \E med \in {R(-1), R(0)} :
          LET e2 == pkEstimate(xcLag(pk.maxlag), pk.pars1, RAdd(med, pk.pars1[4]))
              st == pkStart23(xcLag(pk.maxlag), pk.ccfdiff, e2)
          IN  IF SolverStart(st.x0, st.lb, st.ub) # XcNoExc
              THEN pk' = [pk EXCEPT !.pc = "raised", !.calls = Append(@, st),
                                    !.med = med, !.pars1 = e2,
                                    !.exc = SolverStart(st.x0, st.lb, st.ub)]
              ELSE \E pars \in SolverPicks(st.x0, st.lb, st.ub) :
                      pk' = [pk EXCEPT !.pc = "fit3", !.calls = Append(@, st),
                                       !.med = med, !.pars1 = e2,
                                       !.pars2 = pars]
    /\ UNCHANGED <<ccvars, fitvars, xc, pr, lg, mu>>

\* the 1-sigma uncertainty above which fit 3 is redone
PErrorLimit == 10

\* the uncertainties np.sqrt(np.diag(cov)) fit 3 and the refit may report
PErrors3 == {<<1, 1, 1, 1>>, <<11, 1, 1, 1>>, <<1, 11, 1, 1>>}
PErrorsRefit == {<<2, 2, 2, 2>>}

\* (perror3[0] > 10) | (perror3[1] > 10)
pkLarge(perror3) == perror3[1] > PErrorLimit \/ perror3[2] > PErrorLimit

\* fit 3: an even narrower range; estimates3 is pars2 itself, its constant
\* the same median plus the pars1[3] fit 2 overwrote
PeakFit3 ==
    /\ pk.pc = "fit3"
    /\ LET e3 == pkEstimate(xcLag(pk.maxlag), pk.pars2, RAdd(pk.med, pk.pars1[4]))
           st == pkStart23(xcLag(pk.maxlag), pk.ccfdiff, e3)
       IN  IF SolverStart(st.x0, st.lb, st.ub) # XcNoExc
           THEN pk' = [pk EXCEPT !.pc = "raised", !.calls = Append(@, st),
                                 !.pars2 = e3,
                                 !.exc = SolverStart(st.x0, st.lb, st.ub)]
           ELSE \E pars \in SolverPicks(st.x0, st.lb, st.ub), perror \in PErrors3 :
                   pk' = [pk EXCEPT !.pc = IF pkLarge(perror) THEN "refit"
                                           ELSE "final",
                                    !.calls = Append(@, st), !.pars2 = e3,
                                    !.pars3 = pars, !.fit3error = perror,
                                    !.perror3 = perror]
    /\ UNCHANGED <<ccvars, fitvars, xc, pr, lg, mu>>

\* the refit made when perror3[0] > 10 or perror3[1] > 10: its parameters go
\* to dpars3 and its uncertainties replace perror3
PeakRefit ==
    /\ pk.pc = "refit"
    /\ LET st == pkStartRefit(pk.ccfdiff, pk.pars2, pk.pars3)
       IN  IF SolverStart(st.x0, st.lb, st.ub) # XcNoExc
           THEN pk' = [pk EXCEPT !.pc = "raised", !.calls = Append(@, st),
                                 !.exc = SolverStart(st.x0, st.lb, st.ub)]
           ELSE \E pars \in SolverPicks(st.x0, st.lb, st.ub),
                   perror \in PErrorsRefit :
                   pk' = [pk EXCEPT !.pc = "final", !.calls = Append(@, st),
                                    !.refit = TRUE, !.dpars3 = pars,
                                    !.perror3 = perror]
    /\ UNCHANGED <<ccvars, fitvars, xc, pr, lg, mu>>

\* pars = pars3, perror = perror3; xshift, ccpeak, the FWHM and ccp_pars are
\* read from pars, xshifterr and ccp_perror from perror
pkOutput(pars3, perror3) ==
    [set |-> TRUE, xshift |-> pars3[2], xshifterr |-> perror3[2],
     ccpeak |-> pars3[1], sigma |-> pars3[3], ccp_pars |-> pars3,
     ccp_perror |-> perror3]

\* Final parameters: the output record is filled and returned
PeakFinal ==
    /\ pk.pc = "final"
    /\ pk' = [pk EXCEPT !.pc = "done", !.out = pkOutput(pk.pars3, pk.perror3)]
    /\ UNCHANGED <<ccvars, fitvars, xc, pr, lg, mu>>

PKNext ==
    \/ PeakFit0
    \/ PeakFit1
    \/ PeakFit2
    \/ PeakFit3
    \/ PeakRefit
    \/ PeakFinal

(***************************************************************************)
(* The lag axis of the pipeline: fit() computes maxlag from the wavelength *)
(* step, specxcorr() builds the lags and ccorrelate() slices the arrays by *)
(* every lag.  The arrays are flat series of npix pixels.                  *)
(***************************************************************************)
\* most pixels of the spectrum
MaxLen == 60

\* the smallest maxlag fit() uses
MinMaxLag == 50

\* np.int(np.ceil(np.log10(1+2000.0/cspeed)/dwlog)) for the wavelength steps
\* tried
RawLags == {1, MinMaxLag, MinMaxLag + 5}

\* maxlag = np.maximum(maxlag, 50)
fitMaxLag(raw) == IF raw > MinMaxLag THEN raw ELSE MinMaxLag

NoLag ==
    [pc |-> "idle", npix |-> 0, raw |-> 0, maxlag |-> 0, lag |-> <<>>,
     exc |-> XcNoExc]
LGIdle == lg = NoLag

LagData ==
    \E n \in 2..MaxLen, raw \in RawLags :
       lg = [NoLag EXCEPT !.pc = "maxlag", !.npix = n, !.raw = raw]

\* Step 4 of fit(): the largest lag
FitMaxLag ==
    /\ lg.pc = "maxlag"
    /\ lg' = [lg EXCEPT !.pc = "axis", !.maxlag = fitMaxLag(lg.raw)]
    /\ UNCHANGED <<ccvars, fitvars, xc, pr, pk, mu>>

\* specxcorr(): the lag axis
XcLagAxis ==
    /\ lg.pc = "axis"
    /\ lg' = [lg EXCEPT !.pc = "slices", !.lag = xcLag(lg.maxlag)]
    /\ UNCHANGED <<ccvars, fitvars, xc, pr, pk, mu>>

\* ccorrelate(): the two slices of every lag are multiplied
CcSlices ==
    /\ lg.pc = "slices"
    /\ lg' = [lg EXCEPT
                 !.pc = IF ccLagsFit(lg.npix, lg.lag) THEN "done" ELSE "raised",
                 !.exc = IF ccLagsFit(lg.npix, lg.lag) THEN XcNoExc
                         ELSE XcExc("ValueError", "ValueError:broadcast")]
    /\ UNCHANGED <<ccvars, fitvars, xc, pr, pk, mu>>

LGNext ==
    \/ FitMaxLag
    \/ XcLagAxis
    \/ CcSlices

\* ---------------------------------------------------------------------
\* mute(): the context manager that captures stdout and stderr
\* ---------------------------------------------------------------------

\* with-blocks entered in one behaviour, and writes made by the bodies
MaxBlocks == 2
MaxPrints == 2

\* the stream objects: the two of the interpreter, and the two io.StringIO()
\* objects each entry of mute() creates
SysOut == [kind |-> "sys", fd |-> "out", block |-> 0]
SysErr == [kind |-> "sys", fd |-> "err", block |-> 0]
StringIO(fd, b) == [kind |-> "io", fd |-> fd, block |-> b]
Streams == {SysOut, SysErr} \cup {StringIO(fd, b) : fd \in {"out", "err"}, b \in 1..MaxBlocks}

\* what a body can raise; the except clause of mute() names Exception, of
\* which KeyboardInterrupt and SystemExit are not subclasses
ExcKinds == {"ValueError", "KeyboardInterrupt", "SystemExit"}
IsException(kind) == kind \notin {"KeyboardInterrupt", "SystemExit"}

\* the program outside any block: sys.stdout and sys.stderr are the
\* interpreter's streams, nothing written, no block entered
NoMute ==
    [pc |-> "idle", out |-> SysOut, err |-> SysErr, frames |-> <<>>,
     text |-> [st \in Streams |-> <<>>], exc |-> "", blocks |-> 0, prints |-> 0]
MUIdle == mu = NoMute
MuteStart == mu = [NoMute EXCEPT !.pc = "body"]

\* with mute(): up to the yield
MuteEnter ==
    /\ mu.pc = "body" /\ mu.blocks < MaxBlocks
    /\ mu' = [mu EXCEPT !.frames = Append(@, [saved_stdout |-> mu.out,
                                              saved_stderr |-> mu.err]),
                        !.out = StringIO("out", mu.blocks + 1),
                        !.err = StringIO("err", mu.blocks + 1),
                        !.blocks = @ + 1]
    /\ UNCHANGED <<ccvars, fitvars, xc, pr, pk, lg>>

\* the running code writes to sys.stdout or to sys.stderr
BodyPrint(fd) ==
    /\ mu.pc = "body" /\ mu.prints < MaxPrints
    /\ mu' = [mu EXCEPT !.text[IF fd = "out" THEN mu.out ELSE mu.err] =
                            Append(@, fd),
                        !.prints = @ + 1]
    /\ UNCHANGED <<ccvars, fitvars, xc, pr, pk, lg>>

\* the body of the innermost block raises
BodyRaise(kind) ==
    /\ mu.pc = "body" /\ mu.frames # <<>>
    /\ mu' = [mu EXCEPT !.pc = "unwind", !.exc = kind]
    /\ UNCHANGED <<ccvars, fitvars, xc, pr, pk, lg>>

\* the body of the innermost block returns: the two lines after the try
MuteExit ==
    /\ mu.pc = "body" /\ mu.frames # <<>>
    /\ mu' = [mu EXCEPT !.out = mu.frames[Len(mu.frames)].saved_stdout,
                        !.err = mu.frames[Len(mu.frames)].saved_stderr,
                        !.frames = SubSeq(@, 1, Len(@) - 1)]
    /\ UNCHANGED <<ccvars, fitvars, xc, pr, pk, lg>>

\* the text of the restored stdout after the two print calls of the handler
mutePrinted(text, saved, output, outerr) ==
    text[saved] \o text[output] \o <<"nl">> \o text[outerr] \o <<"nl">>

\* the exception of the body reaches the innermost block and the except
\* clause takes it: streams restored, captured text printed, raise
MuteExcept ==
    /\ mu.pc = "unwind" /\ mu.frames # <<>> /\ IsException(mu.exc)
    /\ mu' = [mu EXCEPT !.out = mu.frames[Len(mu.frames)].saved_stdout,
                        !.err = mu.frames[Len(mu.frames)].saved_stderr,
                        !.text[mu.frames[Len(mu.frames)].saved_stdout] =
                            mutePrinted(mu.text,
                                        mu.frames[Len(mu.frames)].saved_stdout,
                                        mu.out, mu.err),
                        !.frames = SubSeq(@, 1, Len(@) - 1)]
    /\ UNCHANGED <<ccvars, fitvars, xc, pr, pk, lg>>

\* the exception of the body reaches the innermost block and the except
\* clause does not take it: the generator is left at the yield
MutePass ==
    /\ mu.pc = "unwind" /\ mu.frames # <<>> /\ ~IsException(mu.exc)
    /\ mu' = [mu EXCEPT !.frames = SubSeq(@, 1, Len(@) - 1)]
    /\ UNCHANGED <<ccvars, fitvars, xc, pr, pk, lg>>

MUNext ==
    \/ MuteEnter
    \/ \E fd \in {"out", "err"} : BodyPrint(fd)
    \/ \E kind \in ExcKinds : BodyRaise(kind)
    \/ MuteExit
    \/ MuteExcept
    \/ MutePass

(***************************************************************************)
(* emcee_lnprior(theta, models) and emcee_lnprob(theta, x, y, yerr, models, *)
(* spec)                                                                   *)
(*                                                                         *)
(* theta is <<teff, logg, feh, rv>>; a model is the box [lo, hi] of its     *)
(* ranges.  A log value is minus infinity or a finite number.              *)
(***************************************************************************)
\* most models in the list
MaxModels == 2

NegInf == [inf |-> TRUE, v |-> 0]
Fin(v) == [inf |-> FALSE, v |-> v]

\* the largest |rv| of the prior
MaxVel == 2000

\* lnInside with open ranges
lnInsideOpen(theta, m) ==
    /\ \A i \in 1..3 : theta[i] > m.lo[i] /\ theta[i] < m.hi[i]
    /\ Abs(theta[4]) <= MaxVel

\* inside, after the loop over the three labels and the velocity test
lnInside(theta, m) ==
    /\ \A i \in 1..3 : theta[i] >= m.lo[i] /\ theta[i] <= m.hi[i]
    /\ Abs(theta[4]) <= MaxVel

\* for m in models: ... if inside: return 0.0;  return -np.inf
RECURSIVE emcee_lnprior(_, _)
emcee_lnprior(theta, models) ==
    IF models = <<>> THEN NegInf
    ELSE IF lnInside(theta, Head(models)) THEN Fin(0)
    ELSE emcee_lnprior(theta, Tail(models))

\* lp = emcee_lnprior(theta, models); -np.inf if lp is not finite, else
\* lp + emcee_lnlike(...), whose value is lnlike
emcee_lnprob(theta, models, lnlike) ==
    IF emcee_lnprior(theta, models).inf THEN NegInf
    ELSE Fin(emcee_lnprior(theta, models).v + lnlike)

\* the boxes of the models, the points and the log likelihoods tried
Boxes ==
    {[lo |-> <<1, 1, 1>>, hi |-> <<2, 2, 2>>],
     [lo |-> <<3, 3, 1>>, hi |-> <<4, 4, 2>>],
     [lo |-> <<2, 1, 1>>, hi |-> <<3, 4, 1>>]}
Thetas == (0..5) \X {1, 3, 5} \X {1, 2} \X {-MaxVel - 1, -MaxVel, 0, MaxVel + 1}
LnLikes == {-7, -1}

NoPr ==
    [pc |-> "idle", theta |-> <<0, 0, 0, 0>>, models |-> <<>>, lnlike |-> 0,
     lnprior |-> NegInf, lnprob |-> NegInf]
PRIdle == pr = NoPr

PRData ==
    \E k \in 0..MaxModels :
       \E models \in [1..k -> Boxes], theta \in Thetas, l \in LnLikes :
          pr = [NoPr EXCEPT !.pc = "start", !.theta = theta, !.models = models,
                            !.lnlike = l]

\* the sampler asks for the log prior of a point
CallLnPrior ==
    /\ pr.pc = "start"
    /\ pr' = [pr EXCEPT !.pc = "prior",
                        !.lnprior = emcee_lnprior(pr.theta, pr.models)]
    /\ UNCHANGED ccvars /\ UNCHANGED fitvars /\ UNCHANGED <<xc, pk, lg, mu>>

\* the sampler asks for the log probability of the point
CallLnProb ==
    /\ pr.pc = "prior"
    /\ pr' = [pr EXCEPT !.pc = "done",
                        !.lnprob = emcee_lnprob(pr.theta, pr.models, pr.lnlike)]
    /\ UNCHANGED ccvars /\ UNCHANGED fitvars /\ UNCHANGED <<xc, pk, lg, mu>>

PRNext ==
    \/ CallLnPrior
    \/ CallLnProb

(***************************************************************************)
(* fit(spec, models, verbose, mcmc, figname, cornername)                   *)
(*                                                                         *)
(* The spectrum is MaxPix pixels of one order.  Atmosphere parameters are  *)
(* triples <<teff, logg, feh>> on an integer scale 0..4 and velocities are *)
(* whole km/s.  The collaborators that are not part of rv.py answer from   *)
(* small sets; an answer given in the first call is given again in the     *)
(* second (deterministic collaborators).                                   *)
(***************************************************************************)
\* float division where the dividend may be NaN or the 1e30 flag
FDiv(a, b) == IF a.d = 0 THEN a ELSE RDiv(a, b)

DivCols(a, b) == Tup([p \in 1..Len(a) |-> FDiv(a[p], b[p])], Len(a))
MulCols(a, b) == Tup([p \in 1..Len(a) |-> RMul(a[p], b[p])], Len(a))
ConstCol(v, n) == Tup([p \in 1..n |-> v], n)

\* the coarse grid of S1: a cool dwarf and a hot star at one metallicity
GridPts == << <<1, 3, 2>>, <<4, 2, 2>> >>
\* what an inversion (model.test) may return before clipping
InvRaw == {<<0, 2, 4>>, <<2, 2, 2>>}
\* the relative velocities specxcorr may report, and its error
VelVals == {-30, 10}
XcErr == 1
\* what curve_fit may converge to, and the errors it reports
LsPars == {<<2, 2, 2, 10>>, <<0, 2, 2, 10>>}
LsErr == <<4, 3, 2, 1>>
\* what the sampler's percentiles may give
McPars == {<<2, 2, 2, 10>>, <<3, 1, 2, -30>>}
McErr == <<8, 7, 6, 5>>
\* the floor of the half-width of the S7 velocity grid
MinHalfWidth == 20

\* cannon.model_spectrum: a flat normalized model inside the envelope of the
\* models, None outside it
ModelSpectrum(e, par, n) ==
    IF \A i \in 1..3 : e.lo[i] <= par[i] /\ par[i] <= e.hi[i]
    THEN [none |-> FALSE, flux |-> ConstCol(R(1), n)]
    ELSE [none |-> TRUE, flux |-> <<>>]

\* dln.limit without its upper limit
LimitBelowOnly(v, lo, hi) == IF v < lo THEN lo ELSE v

\* dln.limit(v, lo, hi)
Limit(v, lo, hi) == IF v < lo THEN lo ELSE IF v > hi THEN hi ELSE v

\* for i in range(3): labels[i] = dln.limit(labels[i], ranges[i,0], ranges[i,1])
ClipLabels(lab, e) ==
    <<Limit(lab[1], e.lo[1], e.hi[1]), Limit(lab[2], e.lo[2], e.hi[2]),
      Limit(lab[3], e.lo[3], e.hi[3])>>

\* dln.gsmooth(ratio, smlen, boundary='extend'): a kernel over the pixel and
\* its two neighbours, the edges extended
Smooth(r) ==
    LET n == Len(r)
        at(p) == r[IF p < 1 THEN 1 ELSE IF p > n THEN n ELSE p]
    IN  Tup([p \in 1..n |->
               RDiv(RAdd(at(p - 1), RAdd(at(p), at(p + 1))), R(3))], n)

\* spec.normalize(): flux and err divided by the continuum
Normalize(sp) ==
    LET c == ConstCol(R(2), Len(sp.flux))
    IN  [sp EXCEPT !.flux = DivCols(sp.flux, c), !.err = DivCols(sp.err, c),
                   !.cont = c, !.normalized = TRUE]

\* MaskErrors flagging every pixel, masked or not
MaskErrorsAll(sp) ==
    [sp EXCEPT !.err = Tup([p \in 1..Len(sp.err) |-> Huge], Len(sp.err))]

\* spec.err[spec.mask] = 1e30
MaskErrors(sp) ==
    [sp EXCEPT !.err = Tup([p \in 1..Len(sp.err) |->
                              IF sp.mask[p] THEN Huge ELSE sp.err[p]], Len(sp.err))]

\* spec.interp(wavelog): a new spectrum object on the log-wavelength grid
Interp(sp) == [flux |-> sp.flux, err |-> sp.err, cont |-> sp.cont]

\* the continuum tweak: cont, flux and err after division by the smoothed ratio
\* of the flux to the model (the replacement of the two end pixels of the
\* ratio by the median of their neighbourhood is the pixel itself at this
\* length)
Tweak(flux, err, mflux) ==
    LET sm == Smooth(DivCols(flux, mflux))
    IN  [sm |-> sm, flux |-> DivCols(flux, sm), err |-> DivCols(err, sm)]

\* np.sum(((flux - m)/err)**2) / len(flux): the square of the reported chisq
ChisqSq(flux, err, mflux) ==
    LET n == Len(flux)
        term(p) == IF err[p].d = 0 THEN R(0)
                   ELSE LET q == RDiv(RSub(flux[p], mflux[p]), err[p])
                        IN  RMul(q, q)
    IN  RDiv(SumSeq(Tup([p \in 1..n |-> term(p)], n)), R(n))

\* specxcorr finds no good pixel (finite, positive flux, 0 < err < 1e5)
NoGoodPixel(o) ==
    \A p \in 1..Len(o.flux) :
        ~(o.flux[p].d # 0 /\ o.flux[p].n > 0 /\ o.err[p].d # 0 /\ o.err[p].n > 0)

\* np.argmin: the first index of the smallest value
ArgMin(c) ==
    CHOOSE i \in 1..Len(c) :
        /\ \A j \in 1..Len(c) : c[i].n * c[j].d <= c[j].n * c[i].d
        /\ \A j \in 1..(i - 1) : c[j].n * c[i].d > c[i].n * c[j].d

\* bestind = np.argmin(outstr['chisq']) over the grid: every grid point's
\* template is the same flat model, so every chisq is the same
GridBest(o) ==
    LET m == ConstCol(R(1), Len(o.flux))
    IN  ArgMin(Tup([i \in 1..Len(GridPts) |-> ChisqSq(o.flux, o.err, m)],
                   Len(GridPts)))

NoPar == <<0, 0, 0>>
NoPar4 == <<0, 0, 0, 0>>
NoOut ==
    [set |-> FALSE, vhelio |-> 0, vrel |-> 0, vrelerr |-> 0, teff |-> 0,
     tefferr |-> 0, logg |-> 0, loggerr |-> 0, feh |-> 0, feherr |-> 0,
     chisq |-> R(0), bc |-> 0]
Loc0 ==
    [stages |-> <<>>, beststr |-> [par |-> NoPar, vrel |-> 0, vrelerr |-> 0],
     labels0 |-> NoPar, labels |-> NoPar,
     beststr2 |-> [par |-> NoPar, vrel |-> 0, vrelerr |-> 0],
     labels2 |-> NoPar, tweakpar |-> NoPar4, initpar |-> NoPar4,
     lspars |-> NoPar4, lsperror |-> NoPar4, maxv |-> 0, finerv |-> 0,
     finechisq |-> R(0),
     fpars |-> NoPar4, fperror |-> NoPar4, fchisq |-> R(0)]
Orc0 ==
    [set |-> {}, s1 |-> [best |-> 1, vrel |-> 0], inv0 |-> NoPar, inv1 |-> NoPar,
     s4 |-> 0, inv2 |-> NoPar, ls |-> NoPar4]
NoExc == ""
NoSpec ==
    [flux |-> <<>>, err |-> <<>>, cont |-> <<>>, mask |-> <<>>, wave |-> <<>>,
     normalized |-> FALSE]

\* the answers a collaborator may give: the one it gave before, if any
Answers(name, before, choices) == IF name \in orc.set THEN {before} ELSE choices

Stage(name) == [loc EXCEPT !.stages = Append(loc.stages, name)]

\* an exception leaves fit(): no result is returned
Raise(what, stage) ==
    /\ pc' = "raised"
    /\ exc' = what
    /\ loc' = Stage(stage)
    /\ UNCHANGED <<cx, cy, ccall, cres, cmem, xc, pr, pk, lg, mu, spec, obs, fargs, env, orc, out, second,
                   first, entry>>

FitIdle ==
    /\ pc = "idle" /\ spec = NoSpec /\ obs = Interp(NoSpec)
    /\ fargs = [mcmc |-> FALSE, corner |-> FALSE]
    /\ env = [lo |-> NoPar, hi |-> NoPar, bc |-> 0]
    /\ orc = Orc0 /\ loc = Loc0 /\ out = NoOut /\ exc = NoExc
    /\ second = FALSE /\ first = NoOut /\ entry = NoSpec

CCIdle == cx = <<>> /\ cy = <<>> /\ ccall = NoCall /\ cres = NoRes /\ cmem = NoMem

FitInit ==
    /\ pc = "S0"
    /\ \E flux \in [1..MaxPix -> {R(1), R(2)}],
          mask \in {ConstCol(FALSE, MaxPix), ConstCol(TRUE, MaxPix),
                    [ConstCol(FALSE, MaxPix) EXCEPT ![1] = TRUE]},
          normalized \in BOOLEAN :
          spec = [flux |-> flux, err |-> ConstCol(R(1), MaxPix),
                  cont |-> ConstCol(R(1), MaxPix), mask |-> mask,
                  wave |-> Tup([p \in 1..MaxPix |-> p], MaxPix),
                  normalized |-> normalized]
    /\ entry = spec
    /\ obs = Interp(NoSpec)
    /\ fargs \in [mcmc : BOOLEAN, corner : BOOLEAN]
    /\ \E hot \in {3, 4} :
          env = [lo |-> <<1, 1, 1>>, hi |-> <<hot, 3, 3>>, bc |-> 5]
    /\ orc = Orc0 /\ loc = Loc0 /\ out = NoOut /\ exc = NoExc
    /\ second = FALSE /\ first = NoOut

\* Steps 1-3: normalize if needed, flag the masked pixels' errors, and put the
\* spectrum on the log-wavelength grid
S0Prepare ==
    /\ pc = "S0"
    /\ spec' = MaskErrors(IF spec.normalized THEN spec ELSE Normalize(spec))
    /\ obs' = Interp(spec')
    /\ loc' = [Loc0 EXCEPT !.stages = <<"S0">>]
    /\ pc' = "S1"
    /\ UNCHANGED <<cx, cy, ccall, cres, cmem, xc, pr, pk, lg, mu, fargs, env, orc, out, exc, second, first, entry>>

\* Step 4: cross-correlate against the model of every grid point and keep the
\* one of smallest chisq
S1CoarseGrid ==
    /\ pc = "S1"
    /\ IF \E i \in 1..Len(GridPts) :
             ModelSpectrum(env, GridPts[i], Len(obs.flux)).none
       THEN Raise("AttributeError:None.wave", "S1")
       ELSE IF NoGoodPixel(obs)
       THEN Raise("Exception:Bad spectrum", "S1")
       ELSE \E a \in Answers("s1", orc.s1,
                             [best : {GridBest(obs)}, vrel : VelVals]) :
              /\ loc' = [Stage("S1") EXCEPT
                            !.beststr = [par |-> GridPts[a.best], vrel |-> a.vrel,
                                         vrelerr |-> XcErr]]
              /\ orc' = [orc EXCEPT !.set = @ \cup {"s1"}, !.s1 = a]
              /\ pc' = "S2"
              /\ UNCHANGED <<cx, cy, ccall, cres, cmem, xc, pr, pk, lg, mu, spec, obs, fargs, env, out, exc, second, first, entry>>

\* Step 5, first half: invert the best model on the observed flux and clip
\* the labels into its ranges
S2ModelInversion ==
    /\ pc = "S2"
    /\ \E raw \in Answers("inv0", orc.inv0, InvRaw) :
          /\ loc' = [Stage("S2") EXCEPT !.labels0 = ClipLabels(raw, env)]
          /\ orc' = [orc EXCEPT !.set = @ \cup {"inv0"}, !.inv0 = raw]
    /\ pc' = "S3"
    /\ UNCHANGED <<cx, cy, ccall, cres, cmem, xc, pr, pk, lg, mu, spec, obs, fargs, env, out, exc, second, first, entry>>

\* Step 5, second half: tweak the continuum of obs and invert again
S3ContinuumTweak ==
    /\ pc = "S3"
    /\ LET m0 == ModelSpectrum(env, loc.labels0, Len(obs.flux))
           t == Tweak(obs.flux, obs.err, m0.flux)
       IN  obs' = [flux |-> t.flux, err |-> t.err, cont |-> t.sm]
    /\ \E raw \in Answers("inv1", orc.inv1, InvRaw) :
          /\ loc' = [Stage("S3") EXCEPT !.labels = ClipLabels(raw, env)]
          /\ orc' = [orc EXCEPT !.set = @ \cup {"inv1"}, !.inv1 = raw]
    /\ pc' = "S4"
    /\ UNCHANGED <<cx, cy, ccall, cres, cmem, xc, pr, pk, lg, mu, spec, fargs, env, out, exc, second, first, entry>>

\* Step 6: cross-correlate against the model of the S3 labels
S4VelocityRefit ==
    /\ pc = "S4"
    /\ IF ModelSpectrum(env, loc.labels, Len(obs.flux)).none
       THEN Raise("AttributeError:None.wave", "S4")
       ELSE IF NoGoodPixel(obs)
       THEN Raise("Exception:Bad spectrum", "S4")
       ELSE \E v \in Answers("s4", orc.s4, VelVals) :
              /\ loc' = [Stage("S4") EXCEPT
                            !.beststr2 = [par |-> loc.labels, vrel |-> v,
                                          vrelerr |-> XcErr]]
              /\ orc' = [orc EXCEPT !.set = @ \cup {"s4"}, !.s4 = v]
              /\ pc' = "S5"
              /\ UNCHANGED <<cx, cy, ccall, cres, cmem, xc, pr, pk, lg, mu, spec, obs, fargs, env, out, exc, second, first, entry>>

\* Step 7: invert once more at the S4 velocity
S5ParameterRefit ==
    /\ pc = "S5"
    /\ \E raw \in Answers("inv2", orc.inv2, InvRaw) :
          /\ loc' = [Stage("S5") EXCEPT !.labels2 = ClipLabels(raw, env)]
          /\ orc' = [orc EXCEPT !.set = @ \cup {"inv2"}, !.inv2 = raw]
    /\ pc' = "S6"
    /\ UNCHANGED <<cx, cy, ccall, cres, cmem, xc, pr, pk, lg, mu, spec, obs, fargs, env, out, exc, second, first, entry>>

\* Step 8: tweak the continuum of spec itself against the model of beststr2,
\* then curve_fit all four parameters from beststr2
S6ForwardLeastSquares ==
    /\ pc = "S6"
    /\ LET tp == loc.beststr2.par \o <<loc.beststr2.vrel>>
           m == ModelSpectrum(env, loc.beststr2.par, Len(spec.flux))
       IN  IF m.none
           THEN Raise("AttributeError:None.flux", "S6")
           ELSE LET t == Tweak(spec.flux, spec.err, m.flux)
                    sp == [spec EXCEPT !.cont = MulCols(spec.cont, t.sm),
                                       !.flux = t.flux, !.err = t.err]
                IN  \E ls \in Answers("ls", orc.ls, LsPars) :
                      /\ spec' = sp
                      /\ orc' = [orc EXCEPT !.set = @ \cup {"ls"}, !.ls = ls]
                      /\ IF ModelSpectrum(env, SubSeq(ls, 1, 3), Len(sp.flux)).none
                         THEN /\ pc' = "raised"
                              /\ exc' = "AttributeError:None.flux"
                              /\ loc' = Stage("S6")
                         ELSE /\ pc' = "S7"
                              /\ exc' = exc
                              /\ loc' = [Stage("S6") EXCEPT
                                            !.tweakpar = tp, !.initpar = tp,
                                            !.lspars = ls, !.lsperror = LsErr]
                      /\ UNCHANGED <<cx, cy, ccall, cres, cmem, xc, pr, pk, lg, mu, obs, fargs, env, out, second, first, entry>>

\* the velocity grid of S7: its two ends and its middle
VelGrid(v, maxv) == <<v - maxv, v, v + maxv>>

\* maxv = np.maximum(beststr2['vrel'][0], 20.0)
MaxV(vrel) == IF vrel > MinHalfWidth THEN vrel ELSE MinHalfWidth

\* AfterS7 going back to the least-squares stage
AfterS7Back(a) == "S6"

\* AfterS7 looking at mcmc alone
AfterS7McmcOnly(a) == IF a.mcmc THEN "S8" ELSE "S9"

\* the stage after S7: if (mcmc is True) | (cornername is not None), the
\* sampler; else the output
AfterS7(a) == IF a.mcmc \/ a.corner THEN "S8" ELSE "S9"

\* Step 9: chisq on a velocity grid around the S6 velocity, its minimum
S7FineVelocityGrid ==
    /\ pc = "S7"
    /\ LET maxv == MaxV(loc.beststr2.vrel)
           vel == VelGrid(loc.lspars[4], maxv)
           par == SubSeq(loc.lspars, 1, 3)
           m == ModelSpectrum(env, par, Len(spec.flux))
       IN  IF m.none
           THEN Raise("AttributeError:None.flux", "S7")
           ELSE LET chisq == Tup([i \in 1..Len(vel) |->
                                    ChisqSq(spec.flux, spec.err, m.flux)], Len(vel))
                    bestind == ArgMin(chisq)
                IN  /\ loc' = [Stage("S7") EXCEPT
                                  !.maxv = maxv, !.finerv = vel[bestind],
                                  !.finechisq = chisq[bestind],
                                  !.fpars = [loc.lspars EXCEPT ![4] = vel[bestind]],
                                  !.lspars = [loc.lspars EXCEPT ![4] = vel[bestind]],
                                  !.fperror = loc.lsperror,
                                  !.fchisq = chisq[bestind]]
                    /\ pc' = AfterS7(fargs)
                    /\ UNCHANGED <<cx, cy, ccall, cres, cmem, xc, pr, pk, lg, mu, spec, obs, fargs, env, orc, out, exc, second,
                                   first, entry>>

\* Step 9 (MCMC): the sampler's medians replace the parameters
S8PosteriorSampling ==
    /\ pc = "S8"
    /\ \E pars \in McPars :
          LET m == ModelSpectrum(env, SubSeq(pars, 1, 3), Len(spec.flux))
          IN  IF m.none
              THEN Raise("AttributeError:None.flux", "S8")
              ELSE /\ loc' = [Stage("S8") EXCEPT
                                 !.fpars = pars, !.fperror = McErr,
                                 !.fchisq = ChisqSq(spec.flux, spec.err, m.flux)]
                   /\ pc' = "S9"
                   /\ UNCHANGED <<cx, cy, ccall, cres, cmem, xc, pr, pk, lg, mu, spec, obs, fargs, env, orc, out, exc, second,
                                  first, entry>>

\* the assignments to the error fields of the output record, in program order
OutErrors(fperror) ==
    LET o1 == [tefferr |-> fperror[1], loggerr |-> 0, feherr |-> 0]
        o2 == [o1 EXCEPT !.tefferr = fperror[2]]
        o3 == [o2 EXCEPT !.tefferr = fperror[3]]
    IN  o3

\* Construct the output and return it
S9Finalize ==
    /\ pc = "S9"
    /\ out' = [set |-> TRUE, vhelio |-> loc.fpars[4] + env.bc,
               vrel |-> loc.fpars[4], vrelerr |-> loc.fperror[4],
               teff |-> loc.fpars[1], tefferr |-> OutErrors(loc.fperror).tefferr,
               logg |-> loc.fpars[2], loggerr |-> OutErrors(loc.fperror).loggerr,
               feh |-> loc.fpars[3], feherr |-> OutErrors(loc.fperror).feherr,
               chisq |-> loc.fchisq, bc |-> env.bc]
    /\ loc' = Stage("S9")
    /\ pc' = "done"
    /\ UNCHANGED <<cx, cy, ccall, cres, cmem, xc, pr, pk, lg, mu, spec, obs, fargs, env, orc, exc, second, first, entry>>

\* the caller calls fit() again on the same spectrum object, same arguments
CallAgain ==
    /\ pc = "done"
    /\ ~second
    /\ second' = TRUE
    /\ first' = out
    /\ out' = NoOut
    /\ pc' = "S0"
    /\ UNCHANGED <<cx, cy, ccall, cres, cmem, xc, pr, pk, lg, mu, spec, obs, fargs, env, orc, loc, exc, entry>>

FitNext ==
    \/ S0Prepare
    \/ S1CoarseGrid
    \/ S2ModelInversion
    \/ S3ContinuumTweak
    \/ S4VelocityRefit
    \/ S5ParameterRefit
    \/ S6ForwardLeastSquares
    \/ S7FineVelocityGrid
    \/ S8PosteriorSampling
    \/ S9Finalize
    \/ CallAgain

Init == FitInit /\ CCIdle /\ XCIdle /\ PRIdle /\ PKIdle /\ LGIdle /\ MUIdle
Next == FitNext
Spec == Init /\ [][Next]_vars

CCInit == CCData /\ FitIdle /\ XCIdle /\ PRIdle /\ PKIdle /\ LGIdle /\ MUIdle
SpecCC == CCInit /\ [][CCNext]_vars

XCInit == XCData /\ FitIdle /\ CCIdle /\ PRIdle /\ PKIdle /\ LGIdle /\ MUIdle
SpecXC == XCInit /\ [][XCNext]_vars

PRInit == PRData /\ FitIdle /\ CCIdle /\ XCIdle /\ PKIdle /\ LGIdle /\ MUIdle
SpecPrior == PRInit /\ [][PRNext]_vars

PKInit == PeakData /\ FitIdle /\ CCIdle /\ XCIdle /\ PRIdle /\ LGIdle /\ MUIdle
SpecPeak == PKInit /\ [][PKNext]_vars

LGInit == LagData /\ FitIdle /\ CCIdle /\ XCIdle /\ PRIdle /\ PKIdle /\ MUIdle
SpecLag == LGInit /\ [][LGNext]_vars

\* blocks of with mute(), nested or one after the other
MUInit == MuteStart /\ FitIdle /\ CCIdle /\ XCIdle /\ PRIdle /\ PKIdle /\ LGIdle
SpecMute == MUInit /\ [][MUNext]_vars

(***************************************************************************)
(* Properties of fit(), checked under Spec.                                *)
(***************************************************************************)
\* the run is the deterministic one: mcmc=False, cornername=None
Deterministic == ~fargs.mcmc /\ ~fargs.corner

\* the arrays of the spectrum object that fit() may divide
SameArrays(a, b) == a.flux = b.flux /\ a.err = b.err /\ a.cont = b.cont

\* C1: fit() is idempotent on a deterministic run: the second call on the
\* same spectrum object starts from flux, err and cont as they were before
\* the first call (normalization, which the normalized attribute records,
\* aside), and returns the record the first call returned.
C1_Idempotent ==
    (second /\ Deterministic) =>
        /\ (pc = "S0" /\ entry.normalized) => SameArrays(spec, entry)
        /\ pc = "done" => out = first

\* C1, the result alone: the second deterministic call returns the record
\* of the first.
C1_SameRecord == (second /\ Deterministic /\ pc = "done") => out = first

\* a step of fit() that leaves wave and mask as they are
KeepsWaveAndMask == spec'.wave = spec.wave /\ spec'.mask = spec.mask

\* a step that writes err only at the masked pixels, with the 1e30 flag
OnlyFlagsMasked ==
    /\ spec'.flux = spec.flux /\ spec'.cont = spec.cont
    /\ \A p \in 1..Len(spec.err) :
          spec'.err[p] = IF spec.mask[p] THEN Huge ELSE spec.err[p]

\* a step that divides flux and err by the factor it multiplies cont by
\* (a flagged error stays flagged)
OnlyRescales ==
    \A p \in 1..Len(spec.flux) :
        /\ RMul(spec'.flux[p], spec'.cont[p]) = RMul(spec.flux[p], spec.cont[p])
        /\ IF spec.err[p] = Huge THEN spec'.err[p] = Huge
           ELSE RMul(spec'.err[p], spec'.cont[p]) = RMul(spec.err[p], spec.cont[p])

\* C2 as stated: on an already-normalized spectrum the continuum rescaling
\* of S6 is the only step that changes flux or err, and wave and mask are
\* never written.
C2_OnlyRescaling ==
    [][spec.normalized =>
          /\ KeepsWaveAndMask
          /\ IF pc = "S6" THEN OnlyRescales
             ELSE spec'.flux = spec.flux /\ spec'.err = spec.err]_vars

\* C2 amended: on an already-normalized spectrum, wave and mask are never
\* written, S0 writes the 1e30 flag into err at the masked pixels and nowhere
\* else, S6 divides flux and err by the factor it multiplies cont by, and no
\* other step changes the spectrum.
C2_MaskThenRescale ==
    [][spec.normalized =>
          /\ KeepsWaveAndMask
          /\ IF pc = "S0" THEN OnlyFlagsMasked
             ELSE IF pc = "S6" THEN OnlyRescales
             ELSE spec' = spec]_vars

\* S0 has flagged a masked pixel and left an unmasked one alone, and S6 has
\* rescaled the flux of a spectrum that came in normalized
C2_Witness ==
    /\ pc = "S7" /\ entry.normalized
    /\ spec.flux # entry.flux /\ spec.cont # entry.cont
    /\ \E p \in 1..Len(spec.err) : spec.mask[p] /\ spec.err[p] = Huge
    /\ \E p \in 1..Len(spec.err) : ~spec.mask[p] /\ spec.err[p] # Huge

\* C3: no call site of the model evaluator dereferences a None result: fit()
\* is never left by the AttributeError of m.wave or m.flux on None.
C3_NoneNeverDereferenced ==
    exc \notin {"AttributeError:None.wave", "AttributeError:None.flux"}

\* C12: in the record fit() returns, the temperature-error field holds the
\* Teff uncertainty of the final fit, the surface-gravity-error field the
\* logg uncertainty and the metallicity-error field the [Fe/H] uncertainty.
C12_ErrorFieldsOwnParameter ==
    pc = "done" =>
        /\ out.tefferr = loc.fperror[1]
        /\ out.loggerr = loc.fperror[2]
        /\ out.feherr = loc.fperror[3]

\* the stages in program order
StageNames == <<"S0", "S1", "S2", "S3", "S4", "S5", "S6", "S7", "S8", "S9">>
StageNo(name) == CHOOSE i \in 1..Len(StageNames) : StageNames[i] = name

\* the stages st ran one after the other in program order from S0, none
\* twice and none left out but S8
InOrder(st) ==
    /\ st # <<>> => st[1] = "S0"
    /\ \A i \in 1..(Len(st) - 1) :
          \/ StageNo(st[i + 1]) = StageNo(st[i]) + 1
          \/ st[i] = "S7" /\ st[i + 1] = "S9"

\* C14: the stages of a call run in the fixed order S0..S7, S8 when taken,
\* S9: each at most once, and the stage about to run is later than every
\* stage already run; a call that returns has run S9 last, and a call that a
\* stage's failure ended has no result record.
C14_StageOrder ==
    /\ InOrder(loc.stages)
    /\ pc \in {"S1", "S2", "S3", "S4", "S5", "S6", "S7", "S8", "S9"} =>
          /\ loc.stages # <<>>
          /\ StageNo(pc) > StageNo(loc.stages[Len(loc.stages)])
    /\ pc = "done" => out.set /\ loc.stages[Len(loc.stages)] = "S9"
    /\ pc = "raised" => ~out.set /\ exc # NoExc

\* a call ran every stage, S8 included, and returned
C14_Witness == pc = "done" /\ loc.stages = StageNames /\ out.set

\* the returned record holds the parameters and errors of the least-squares
\* stage S6, with the velocity and chi-square of the fine grid S7
FromS6S7 ==
    /\ out.teff = loc.lspars[1] /\ out.logg = loc.lspars[2]
    /\ out.feh = loc.lspars[3]
    /\ out.vrel = loc.finerv /\ out.vhelio = loc.finerv + env.bc
    /\ out.vrelerr = loc.lsperror[4]
    /\ out.tefferr = OutErrors(loc.lsperror).tefferr
    /\ out.loggerr = OutErrors(loc.lsperror).loggerr
    /\ out.feherr = OutErrors(loc.lsperror).feherr
    /\ out.chisq = loc.finechisq

C16_S6StartsFromS5 ==
    pc \in {"S7", "S8", "S9", "done"} =>
        /\ SubSeq(loc.tweakpar, 1, 3) = loc.labels2
        /\ SubSeq(loc.initpar, 1, 3) = loc.labels2

\* C17: once S7 has run, the half-width of its velocity grid is the larger of
\* 20 km/s and the size |dv| of the S1 velocity, so it is at least |dv| and
\* at least 20, and the velocity S7 chose is within that half-width of the
\* S6 velocity.
C17_GridHalfWidth ==
    pc \in {"S8", "S9", "done"} =>
        /\ loc.maxv = IF Abs(loc.beststr.vrel) > MinHalfWidth
                      THEN Abs(loc.beststr.vrel) ELSE MinHalfWidth
        /\ loc.maxv >= Abs(loc.beststr.vrel)
        /\ loc.maxv >= MinHalfWidth
        /\ loc.finerv >= orc.ls[4] - loc.maxv
        /\ loc.finerv <= orc.ls[4] + loc.maxv

\* the three labels lab lie in the closed ranges of the inverted model
InRanges(lab) == \A i \in 1..3 : env.lo[i] <= lab[i] /\ lab[i] <= env.hi[i]
Ran(name) == name \in {loc.stages[i] : i \in 1..Len(loc.stages)}

\* C19: the labels kept after the S2 inversion, after the S3 re-inversion and
\* after the S5 inversion each lie in the closed ranges of the inverted
\* model, whatever the inversion returned.
C19_LabelsInRange ==
    /\ Ran("S2") => InRanges(loc.labels0)
    /\ Ran("S3") => InRanges(loc.labels)
    /\ Ran("S5") => InRanges(loc.labels2)

\* the three inversions ran; the first and the last returned labels below
\* and above the ranges, and the labels kept are the clipped ones
C19_Witness ==
    /\ Ran("S5")
    /\ ~InRanges(orc.inv0) /\ orc.inv0[1] < env.lo[1] /\ orc.inv0[3] > env.hi[3]
    /\ loc.labels0 = <<env.lo[1], orc.inv0[2], env.hi[3]>>
    /\ ~InRanges(orc.inv2) /\ InRanges(loc.labels2)

(***************************************************************************)
(* Properties of ccorrelate(), checked under SpecCC.                       *)
(***************************************************************************)
\* the call returned (no exception left it)
Returned == cres.exc = "none"

\* the 1-D call on the same data with an error array of ones
Ref1D(covariance) ==
    ccorrelate(Arr1(cx), Arr1(cy), Lags(MaxLag), Arr1(ErrCol("ones", Len(cy))),
               covariance, FALSE)

\* the call ccorrelate(x, y, lag, zeros) that CallSwapped exchanges
Forward(ml) ==
    ccorrelate(Arr1(cx), Arr1(cy), Lags(ml), Arr1(ErrCol("zeros", Len(cy))),
               FALSE, FALSE)

\* x is not the same value at every pixel
NotConstant(col) == \E p \in 1..Len(col) : col[p] # col[1]

\* C4: called without an error array on equal-length inputs of 2 or more
\* pixels, ccorrelate completes and returns only the CCF; the CCF error is
\* returned exactly when an error array was supplied.
C4_ErrorArrayOptional ==
    /\ (ccall.kind = "noerr" /\ Len(cx) >= 2) => (Returned /\ ~cres.haserr)
    /\ (ccall.kind = "1d" /\ Len(cx) >= 2) => (Returned /\ cres.haserr)

\* C5: a call whose inputs differ in pixel length, or are both 2-D with
\* different order counts, or have fewer than 2 pixels, is rejected with the
\* shape error (ValueError) and returns no CCF.
C5_ShapeErrors ==
    (\/ ccall.kind = "short"
     \/ ccall.kind = "orders" /\ ccall.kx > 0 /\ ccall.ky > 0 /\ ccall.kx # ccall.ky
     \/ ccall.kind \in {"1d", "noerr", "orders", "swapped", "self"} /\ Len(cx) < 2)
    => cres.exc = "ValueError"

\* C6 as stated: a 2-D array on either side with a 1-D array of the same
\* pixel length (2 or more) on the other side gives a CCF.
C6_EitherSide2D ==
    (/\ ccall.kind = "orders" /\ Len(cx) >= 2
     /\ \/ ccall.kx = 0 /\ ccall.ky > 0
        \/ ccall.kx > 0 /\ ccall.ky = 0)
    => Returned

\* C6 amended: with an error array of y's shape and 2 or more pixels, a 1-D
\* x with a 2-D y gives one CCF per order of y, each the CCF of x against
\* that order; a 2-D x with a 1-D y is rejected with the ValueError "If X is
\* 2D then Y must be as well".
C6_Only2DObserved ==
    (ccall.kind = "orders" /\ Len(cx) >= 2) =>
        /\ (ccall.kx = 0 /\ ccall.ky > 0) =>
              /\ Returned
              /\ Len(cres.cross) = ccall.ky
              /\ \A i \in 1..ccall.ky :
                    cres.cross[i] = Ref1D(ccall.cov).cross[1]
        /\ (ccall.kx > 0 /\ ccall.ky = 0) =>
              /\ cres.exc = "ValueError"
              /\ cres.msg = "ValueError:x2d-y1d"

\* a 1-D x against MaxOrd orders of y has returned MaxOrd CCFs that are not
\* all zero
C6_Witness ==
    /\ ccall.kind = "orders" /\ ccall.kx = 0 /\ ccall.ky = MaxOrd
    /\ Returned /\ cres.ndim = 2 /\ Len(cres.cross) = MaxOrd
    /\ \E k \in 1..Len(cres.cross[MaxOrd]) : cres.cross[MaxOrd][k].s # 0

SelfSumSq(col, sc) ==
    LET v == ScaleCol(col, sc)
        m == NanMean(v)
    IN  SumSeq(Tup([p \in 1..Len(v) |-> RMul(RSub(v[p], m), RSub(v[p], m))],
                   Len(v)))

C8_LagSymmetry ==
    ccall.kind = "swapped" =>
        /\ cres.exc = Forward(ccall.ml).exc
        /\ Returned =>
              \A L \in (-ccall.ml)..ccall.ml :
                  Abs(L) <= Len(cx) - 2 =>
                      cres.cross[1][LagIndex(ccall.ml, -L)]
                          = Forward(ccall.ml).cross[1][LagIndex(ccall.ml, L)]

\* the exchanged call has returned a CCF whose values at lag 1 and lag -1
\* differ, on 3 or more pixels
C8_Witness ==
    /\ ccall.kind = "swapped" /\ ccall.ml >= 1 /\ Len(cx) >= 3
    /\ Returned
    /\ cres.cross[1][LagIndex(ccall.ml, 1)] # cres.cross[1][LagIndex(ccall.ml, -1)]
    /\ cres.cross[1][LagIndex(ccall.ml, 1)].s # 0

\* C9: with x and y both given as MaxOrd identical orders, ccorrelate gives
\* at every lag the CCF value it gives for one order alone, in correlation
\* mode and in covariance mode.
C9_OrderCountNormalizedAway ==
    (ccall.kind = "orders" /\ ccall.kx = MaxOrd /\ ccall.ky = MaxOrd) =>
        /\ cres.exc = Ref1D(ccall.cov).exc
        /\ cres.cross = Ref1D(ccall.cov).cross

\* C9 in correlation mode alone.
C9_CorrelationMode ==
    (ccall.kind = "orders" /\ ccall.kx = MaxOrd /\ ccall.ky = MaxOrd
     /\ ~ccall.cov) =>
        /\ cres.exc = Ref1D(FALSE).exc
        /\ cres.cross = Ref1D(FALSE).cross

\* C10 as stated: x, y or both given as one column (N x 1, N >= 2) return
\* what the 1-D arrays return, CCF and CCF error.
C10_OneColumnAnySide ==
    (/\ ccall.kind = "orders" /\ Len(cx) >= 2
     /\ ccall.kx \in {0, 1} /\ ccall.ky \in {0, 1})
    => cres = Ref1D(ccall.cov)

\* C10 amended: y given as one column (N x 1, with its error array), x being
\* 1-D or one column as well, returns what the 1-D arrays return, CCF and CCF
\* error, as 1-D arrays; x given as one column with a 1-D y is rejected with
\* the ValueError "If X is 2D then Y must be as well".
C10_OneColumnObserved ==
    ccall.kind = "orders" =>
        /\ (ccall.kx \in {0, 1} /\ ccall.ky = 1) => cres = Ref1D(ccall.cov)
        /\ (ccall.kx \in {0, 1} /\ ccall.ky = 1 /\ Len(cx) >= 2) =>
              (Returned /\ cres.ndim = 1)
        /\ (ccall.kx = 1 /\ ccall.ky = 0) =>
              (cres.exc = "ValueError" /\ cres.msg = "ValueError:x2d-y1d")

\* a one-column x against a one-column y has returned a CCF and a CCF error
\* that are not all zero
C10_Witness ==
    /\ ccall.kind = "orders" /\ ccall.kx = 1 /\ ccall.ky = 1
    /\ Returned /\ cres.haserr
    /\ \E k \in 1..Len(cres.cross[1]) : cres.cross[1][k].s # 0
    /\ \E k \in 1..Len(cres.cerr[1]) : cres.cerr[1][k].s # 0

\* C11: ccorrelate has no side effects on its arguments: after any call,
\* returning or raising, the caller's x, y, yerr and lag hold the values they
\* held before it.
C11_ArgumentsUntouched == ccall.kind # "none" => cmem.after = cmem.before

\* a call has returned whose y held a NaN and whose yerr held a value of
\* 1e20 or more, with the means removed: the working arrays differ from the
\* caller's in x, y and yerr
C11_Witness ==
    /\ ccall.kind = "1d" /\ ccall.err = "flag" /\ ~ccall.nomean /\ Returned
    /\ \E p \in 1..Len(cy) : cy[p] = NaN
    /\ ccFinalX(cmem.before.x.cols, FALSE) # cmem.before.x.cols
    /\ ccFinalY(cmem.before.y, cmem.before.yerr, FALSE) # cmem.before.y.cols
    /\ ccFinalErr(cmem.before.y, cmem.before.yerr, FALSE) # cmem.before.yerr.cols
    /\ cmem.after = cmem.before


(***************************************************************************)
(* Properties of specxcorr(), checked under SpecXC.                        *)
(***************************************************************************)
\* the call is past the good-pixel count
XcCorrelated == xc.pc \notin {"idle", "start"}

\* the arrays fit ccorrelate: at least two pixels, and every lag's slices
\* can be multiplied
XcShapesFit == Len(xc.obs) >= 2 /\ ccLagsFit(Len(xc.obs), xcLag(xc.maxlag))

\* a pixel is masked when its error is not a usable one
XcUnmasked(p) == FLt(R(0), xc.err[p]) /\ FLt(xc.err[p], ErrCeiling)
\* a pixel carries flux when it is finite and not below the flux floor
XcHasFlux(col, p) == IsFinite(col[p]) /\ ~FLt(col[p], FluxFloor)

\* the data are unusable: the observed spectrum or the template has no
\* finite pixel, or every pixel is masked
XcUnusable ==
    \/ \A p \in 1..Len(xc.obs) : ~XcHasFlux(xc.obs, p)
    \/ \A p \in 1..Len(xc.temp) : ~XcHasFlux(xc.temp, p)
    \/ \A p \in 1..Len(xc.err) : ~XcUnmasked(p)

\* at least two unmasked pixels are finite in the spectrum and the template
XcTwoUsable ==
    Cardinality({p \in 1..Len(xc.obs) :
                    XcUnmasked(p) /\ XcHasFlux(xc.obs, p)
                    /\ XcHasFlux(xc.temp, p)}) >= 2

\* C13: on arrays of fitting shapes, specxcorr raises the no-usable-data
\* error, and nothing else, when the observed spectrum or the template has
\* no finite pixel or every pixel is masked; and it does not raise that error
\* when at least two unmasked finite pixels remain.
C13_NoUsableDataError ==
    XcCorrelated /\ XcShapesFit =>
        /\ XcUnusable => xc.exc = BadSpectrum
        /\ XcTwoUsable => xc.exc # BadSpectrum


(***************************************************************************)
(* Properties of emcee_lnprior() and emcee_lnprob(), checked under         *)
(* SpecPrior.                                                              *)
(***************************************************************************)
\* the closed box of model m holds the three labels of theta
InBox(theta, m) == \A i \in 1..3 : m.lo[i] <= theta[i] /\ theta[i] <= m.hi[i]

\* some model's box holds the labels, and the velocity is at most 2000 in size
Accepted ==
    /\ \E k \in 1..Len(pr.models) : InBox(pr.theta, pr.models[k])
    /\ -MaxVel <= pr.theta[4] /\ pr.theta[4] <= MaxVel

\* C20: emcee_lnprior returns 0 exactly when some one model's closed box
\* holds the three labels and |velocity| <= 2000, and minus infinity
\* otherwise; emcee_lnprob returns minus infinity for every point the prior
\* rejects.
C20_FlatPriorOverBoxes ==
    /\ pr.pc \in {"prior", "done"} =>
          pr.lnprior = IF Accepted THEN Fin(0) ELSE NegInf
    /\ pr.pc = "done" /\ ~Accepted => pr.lnprob = NegInf

\* a point whose labels each lie in the range of some model, but in no one
\* model's box, was rejected by the prior and by the probability
C20_Witness ==
    /\ pr.pc = "done"
    /\ Len(pr.models) = 2
    /\ \A i \in 1..3 : \E k \in 1..2 :
          pr.models[k].lo[i] <= pr.theta[i] /\ pr.theta[i] <= pr.models[k].hi[i]
    /\ \A k \in 1..2 : ~InBox(pr.theta, pr.models[k])
    /\ pr.theta[4] = 0
    /\ pr.lnprior = NegInf /\ pr.lnprob = NegInf


(***************************************************************************)
(* Properties of the peak refiner, checked under SpecPeak.                 *)
(***************************************************************************)
\* the solver call st starts with lower < upper and the estimate inside
StartsInside(st) ==
    \A i \in 1..4 :
        /\ XLt(st.lb[i], st.ub[i])
        /\ XLe(st.lb[i], st.x0[i]) /\ XLe(st.x0[i], st.ub[i])

\* C18: whatever CCF is handed to the refiner, every fit it starts (fit 0 to
\* fit 3 and the refit) has lower bound < upper bound and its initial
\* estimate inside the bounds for all four parameters, and the solver never
\* raises.
C18_FitsStartInsideBounds ==
    /\ \A c \in 1..Len(pk.calls) : StartsInside(pk.calls[c])
    /\ pk.exc = XcNoExc

\* C21: when the refit has run, the peak parameters specxcorr reports and the
\* uncertainties it reports are both those of the refit.
C21_RefitGivesBoth ==
    pk.pc = "done" /\ pk.refit =>
        /\ pk.out.ccp_pars = pk.dpars3
        /\ pk.out.xshift = pk.dpars3[2]
        /\ pk.out.ccp_perror \in PErrorsRefit
        /\ pk.out.xshifterr = pk.out.ccp_perror[2]

(***************************************************************************)
(* Properties of the lag axis, checked under SpecLag.                      *)
(***************************************************************************)
\* C22: the lag axis specxcorr builds is the consecutive integers
\* -maxlag..maxlag, of odd length and with 0 in it; the maxlag fit()
\* computes is at least 50 and at most N-2 for the spectrum length N; and
\* no slice of ccorrelate fails on a lag.
C22_LagsWithinArray ==
    /\ lg.pc \in {"slices", "done", "raised"} =>
          /\ Len(lg.lag) = 2 * lg.maxlag + 1
          /\ \A k \in 1..Len(lg.lag) : lg.lag[k] = k - lg.maxlag - 1
    /\ lg.pc \in {"axis", "slices", "done", "raised"} =>
          /\ lg.maxlag >= MinMaxLag
          /\ lg.maxlag <= lg.npix - 2
    /\ lg.exc = XcNoExc


\* ---------------------------------------------------------------------
\* Masked pixels in specxcorr
\* ---------------------------------------------------------------------

\* the pixels whose error fit() set to 1e30
xcMasked(err) == {p \in 1..Len(err) : err[p] = Huge}

\* the pixels ccorrelate treats as error-flagged: yderr >= 1e20
xcFlagged(errcol) == {p \in 1..Len(errcol) : ~Below1e20(errcol[p])}

\* C23: in a call of specxcorr that reaches ccorrelate, every pixel masked
\* on entry (error 1e30) is still error-flagged (error >= 1e20) in the error
\* array handed to ccorrelate, so that ccorrelate leaves it out.
C23_MaskedStaysFlagged ==
    Len(xc.obserr1) > 0 => xcMasked(xc.err) \subseteq xcFlagged(xc.obserr1)


\* ---------------------------------------------------------------------
\* The divisors of ccorrelate
\* ---------------------------------------------------------------------

\* the sum of squares of the valid samples of one order of x and of y, as
\* lines 247 and 249 take them, before a zero is replaced
ccEnergyX(xcol, nomean) ==
    SumSeq(Tup([p \in 1..Len(xcol) |->
                  RMul(ccFinalX(<<xcol>>, nomean)[1][p],
                       ccFinalX(<<xcol>>, nomean)[1][p])], Len(xcol)))
ccEnergyY(ycol, ec, haserr, nomean) ==
    SumSeq(Tup([p \in 1..Len(ycol) |->
                  IF ccMaskY(ccRemoveMean(ycol, nomean), ec, haserr)[p]
                  THEN RMul(ccRemoveMean(ycol, nomean)[p],
                            ccRemoveMean(ycol, nomean)[p])
                  ELSE R(0)], Len(ycol)))

\* num, rmsx**2 and rmsy**2 as the normalization loop of lines 269-283 reads
\* them: per order, or summed over the orders when both inputs are 2-D
ccSums(x, y, lag, yerr, nomean) ==
    IF NOrderOf(x) > 1 /\ NOrderOf(y) > 1
    THEN ccCombine(ccAllSums(ccReshapeX(x, ccNOrder(x, y)), y, lag, yerr,
                             nomean, ccNOrder(x, y)), Len(lag))
    ELSE ccAllSums(ccReshapeX(x, ccNOrder(x, y)), y, lag, yerr, nomean,
                   ccNOrder(x, y))

\* the orders of the input that go into the normalizers of output order i
ccOrdersOf(x, y, i) ==
    IF NOrderOf(x) > 1 /\ NOrderOf(y) > 1 THEN 1..ccNOrder(x, y) ELSE {i}

\* the valid samples of x (of y) behind output order i have no energy
ccNoEnergyX(x, y, nomean, i) ==
    \A j \in ccOrdersOf(x, y, i) :
        ccEnergyX(ccReshapeX(x, ccNOrder(x, y))[j], nomean) = R(0)
ccNoEnergyY(x, y, yerr, nomean, i) ==
    \A j \in ccOrdersOf(x, y, i) :
        ccEnergyY(y.cols[j], IF yerr # None THEN yerr.cols[j] ELSE <<>>,
                  yerr # None, nomean) = R(0)

\* the call of the behaviour has returned a CCF for arrays of 2 or more pixels
CcDone == Returned /\ NPixOf(cmem.before.x) >= 2
CcSumsDone ==
    ccSums(cmem.before.x, cmem.before.y, cmem.before.lag, cmem.before.yerr,
           ccall.nomean)

\* no divisor of the normalization is zero: a count is divided by only when
\* it is positive, and nelements and the two normalizers are not zero
C24_NoZeroDivisor ==
    CcDone =>
        /\ ccNelements(NPixOf(cmem.before.x),
                       NOrderOf(cmem.before.x) > 1 /\ NOrderOf(cmem.before.y) > 1,
                       ccNOrder(cmem.before.x, cmem.before.y)) # 0
        /\ \A i \in 1..Len(CcSumsDone) :
              CcSumsDone[i].rx # R(0) /\ CcSumsDone[i].ry # R(0)

\* a lag without a valid pair of samples has the CCF value 0 and the CCF
\* error 0
C24_EmptyLagIsZero ==
    CcDone =>
        \A i \in 1..Len(CcSumsDone) : \A k \in 1..Len(cmem.before.lag) :
            CcSumsDone[i].num[k] = 0 =>
                /\ cres.cross[i][k] = Zero
                /\ cres.haserr => cres.cerr[i][k] = Zero

\* a series without energy is normalized with 1
C24_NoEnergyIsOne ==
    CcDone =>
        \A i \in 1..Len(CcSumsDone) :
            /\ ccNoEnergyX(cmem.before.x, cmem.before.y, ccall.nomean, i)
                  => CcSumsDone[i].rx = R(1)
            /\ ccNoEnergyY(cmem.before.x, cmem.before.y, cmem.before.yerr,
                           ccall.nomean, i)
                  => CcSumsDone[i].ry = R(1)

\* C24: ccorrelate never divides by zero for arrays of 2 or more pixels: a lag
\* with no valid pair of samples is not divided by its count and has the CCF
\* value 0 and the CCF error 0, and a series whose valid samples have no
\* energy is normalized with an RMS of 1.
C24_NeverDividesByZero ==
    C24_NoZeroDivisor /\ C24_EmptyLagIsZero /\ C24_NoEnergyIsOne


\* ---------------------------------------------------------------------
\* with mute(): the streams after a block
\* ---------------------------------------------------------------------

\* C25: every exit from a with mute() block, by return or by any exception
\* of the body, nested blocks included, leaves sys.stdout and sys.stderr the
\* stream objects they were when the block was entered; when the body raised,
\* the captured output has been printed to the restored stdout and the same
\* exception goes on to the caller.
C25_MuteRestoresStreams ==
    [][Len(mu'.frames) < Len(mu.frames) =>
          /\ mu'.out = mu.frames[Len(mu.frames)].saved_stdout
          /\ mu'.err = mu.frames[Len(mu.frames)].saved_stderr
          /\ mu.pc = "unwind" =>
                /\ mu'.pc = "unwind" /\ mu'.exc = mu.exc
                /\ mu'.text[mu'.out] =
                      mutePrinted(mu.text,
                                  mu.frames[Len(mu.frames)].saved_stdout,
                                  mu.out, mu.err)]_vars

====
